---- MODULE Spec2Model ----
(***************************************************************************)
(* A model of src/src/vector_space/csv_converter.py: the geodetic          *)
(* transform (lla_to_ecef, ecef_to_ned), the batch driver                  *)
(* convert_lla_to_ned with its reference resolution, and the convert()     *)
(* pipeline that calls it and writes the output file last.                 *)
(*                                                                         *)
(* Values.  A cell of a frame, or a Python value handed to the maths, is a *)
(* record [k, v, s]:                                                       *)
(*   k = "num": a finite float, v its value in units of 1/FloatUnit        *)
(*   k = "nan": float NaN            k = "inf": float infinity, v its sign *)
(*   k = "str": a Python str (non-numeric), s its text                     *)
(* Floats are modelled as fixed point numbers that are rounded after every *)
(* operation, as a float is; latitudes and longitudes are taken from the   *)
(* finite set Angles, on which math.sin and math.cos are tabulated.        *)
(*                                                                         *)
(* Five specifications share the variables:                                *)
(*   Spec      a process calling convert() again and again                 *)
(*   SpecFn    lla_to_ecef and ecef_to_ned as pure functions               *)
(*   SpecPair  two runs of the row loop of convert_lla_to_ned side by side *)
(*   SpecCall  one call of convert_angles_to_degrees, apply_defaults,      *)
(*             apply_column_mapping, format_output, parse_timestamp or     *)
(*             parse_json_column_mapping on its own                        *)
(*   SpecCli   one run of main(): config file, CLI overrides, convert()    *)
(*                                                                         *)
(* Scope.  Under Spec, input files have one header row (the read with      *)
(* header_rows = 2 is not modelled) and no "timestamp" column, so          *)
(* format_output does not call parse_timestamp, and the entity_id config   *)
(* is absent; parse_timestamp and the entity_id configs are exercised      *)
(* under SpecCall.  Explicit reference values are finite floats; every     *)
(* call writes to a fresh output path; a column mapping sends no two       *)
(* columns of a frame to one target.                                       *)
(***************************************************************************)
EXTENDS Integers, Sequences, FiniteSets, TLC

\* One unit of a finite float: values are kept in hundredths.
FloatUnit == 100

Num(v) == [k |-> "num", v |-> v, s |-> ""]
NaN == [k |-> "nan", v |-> 0, s |-> ""]
PInf == [k |-> "inf", v |-> 1, s |-> ""]
NInf == [k |-> "inf", v |-> -1, s |-> ""]
Str(t) == [k |-> "str", v |-> 0, s |-> t]
Zero == Num(0)

\* WGS84 ellipsoid constants: 6378137.0 m, and 0.00669437999014 which is
\* 0.01 at the precision of the model.
WGS84_A == Num(6378137 * FloatUnit)
WGS84_E2 == Num(1)

Abs(n) == IF n < 0 THEN -n ELSE n
Sgn(n) == IF n < 0 THEN -1 ELSE IF n > 0 THEN 1 ELSE 0
Max(a, b) == IF a >= b THEN a ELSE b
Min(a, b) == IF a <= b THEN a ELSE b

\* |a| * |b| / FloatUnit rounded to the nearest unit; the larger factor is
\* split so that no intermediate product leaves 32 bits.
MulAbs(a, b) ==
    LET big == Max(Abs(a), Abs(b))
        small == Min(Abs(a), Abs(b))
    IN  (big \div FloatUnit) * small
          + (((big % FloatUnit) * small + FloatUnit \div 2) \div FloatUnit)

\* |a| / |b| in units of 1/FloatUnit, rounded to the nearest unit (b # 0).
DivAbs(a, b) ==
    LET n == Abs(a)
        d == Abs(b)
    IN  (n \div d) * FloatUnit + (((n % d) * FloatUnit + d \div 2) \div d)

\* The float nearest to the square root of a finite float v >= 0.
SqrtAbs(v) ==
    LET t == v * FloatUnit
        r == CHOOSE q \in 0..(v + FloatUnit) : q * q <= t /\ (q + 1) * (q + 1) > t
    IN  IF t - r * r > r THEN r + 1 ELSE r

\* Python float arithmetic on floats (k is "num", "nan" or "inf").
FNeg(a) ==
    IF a.k = "num" THEN Num(-a.v)
    ELSE IF a.k = "inf" THEN [a EXCEPT !.v = -a.v]
    ELSE a

FAdd(a, b) ==
    IF a.k = "nan" \/ b.k = "nan" THEN NaN
    ELSE IF a.k = "inf" /\ b.k = "inf" THEN (IF a.v = b.v THEN a ELSE NaN)
    ELSE IF a.k = "inf" THEN a
    ELSE IF b.k = "inf" THEN b
    ELSE Num(a.v + b.v)

FSub(a, b) == FAdd(a, FNeg(b))

FMul(a, b) ==
    IF a.k = "nan" \/ b.k = "nan" THEN NaN
    ELSE IF a.k = "inf" \/ b.k = "inf"
         THEN (IF Sgn(a.v) * Sgn(b.v) = 0 THEN NaN
               ELSE [k |-> "inf", v |-> Sgn(a.v) * Sgn(b.v), s |-> ""])
    ELSE Num(Sgn(a.v) * Sgn(b.v) * MulAbs(a.v, b.v))

\* a / b for a finite a and a divisor that is NaN or finite and not zero
\* (the only divisor of the program is sqrt(1 - e2 sin^2 lat) > 0).
FDiv(a, b) ==
    IF a.k = "nan" \/ b.k = "nan" THEN NaN
    ELSE Num(Sgn(a.v) * Sgn(b.v) * DivAbs(a.v, b.v))

\* math.sqrt on NaN or on a finite float >= 0.
FSqrt(a) == IF a.k = "nan" THEN NaN ELSE Num(SqrtAbs(a.v))

\* The latitudes and longitudes of the model, in units of 1/FloatUnit rad.
Angles == {0, 70, 80, -122, -112, 300, -300}

SinTab ==
    [a \in Angles |->
        CASE a = 0 -> 0
          [] a = 70 -> 64
          [] a = 80 -> 72
          [] a = -122 -> -94
          [] a = -112 -> -90
          [] a = 300 -> 14
          [] a = -300 -> -14]

CosTab ==
    [a \in Angles |->
        CASE a = 0 -> 100
          [] a = 70 -> 76
          [] a = 80 -> 70
          [] a = -122 -> 34
          [] a = -112 -> 44
          [] a = 300 -> -99
          [] a = -300 -> -99]

\* math.sin / math.cos of a float that is NaN or finite.  (An infinite
\* argument raises ValueError and a str raises TypeError: see MathExc.)
Sin(a) == IF a.k = "nan" THEN NaN ELSE Num(SinTab[a.v])
Cos(a) == IF a.k = "nan" THEN NaN ELSE Num(CosTab[a.v])

\* The exception math.sin(x) / math.cos(x) raises, or "none".
MathExc(x) ==
    IF x.k = "str" THEN "TypeError"
    ELSE IF x.k = "inf" THEN "ValueError"
    ELSE "none"

\* The outcome of a Python call: it returns val, or raises exc.
Returned(val) == [exc |-> "none", val |-> val]
Raised(exc) == [exc |-> exc, val |-> <<>>]

\* lla_to_ecef: the exception it raises, or "none".  math.sin and math.cos
\* of lat, then of lon, raise first; `n + alt` raises TypeError on a str.
LlaExc(lat, lon, alt) ==
    IF MathExc(lat) # "none" THEN MathExc(lat)
    ELSE IF MathExc(lon) # "none" THEN MathExc(lon)
    ELSE IF alt.k = "str" THEN "TypeError"
    ELSE "none"

\* Line 71: the radius of curvature in the prime vertical.
PrimeVertical(sin_lat) ==
    FDiv(WGS84_A,
         FSqrt(FSub(Num(FloatUnit), FMul(FMul(WGS84_E2, sin_lat), sin_lat))))

\* Mutant: x is computed with the polar term n * (1 - e2) of line 75.
EcefXYZ_PolarTermOnX(n, alt, sin_lat, cos_lat, sin_lon, cos_lon) ==
    << FMul(FMul(FAdd(FMul(n, FSub(Num(FloatUnit), WGS84_E2)), alt), cos_lat), cos_lon),
       FMul(FMul(FAdd(n, alt), cos_lat), sin_lon),
       FMul(FAdd(FMul(n, FSub(Num(FloatUnit), WGS84_E2)), alt), sin_lat) >>

\* Lines 73-75.
EcefXYZ(n, alt, sin_lat, cos_lat, sin_lon, cos_lon) ==
    << FMul(FMul(FAdd(n, alt), cos_lat), cos_lon),
       FMul(FMul(FAdd(n, alt), cos_lat), sin_lon),
       FMul(FAdd(FMul(n, FSub(Num(FloatUnit), WGS84_E2)), alt), sin_lat) >>

lla_to_ecef(lat, lon, alt) ==
    IF LlaExc(lat, lon, alt) # "none" THEN Raised(LlaExc(lat, lon, alt))
    ELSE Returned(EcefXYZ(PrimeVertical(Sin(lat)), alt,
                          Sin(lat), Cos(lat), Sin(lon), Cos(lon)))

\* Line 97 of ecef_to_ned: the reference point in ECEF.
RefEcef_DropAlt(ref_lat, ref_lon, ref_alt) == lla_to_ecef(ref_lat, ref_lon, Zero)

RefEcef(ref_lat, ref_lon, ref_alt) == lla_to_ecef(ref_lat, ref_lon, ref_alt)

\* Mutant: east is taken with the opposite sign (a west axis).
Rotate_WestAxis(dx, dy, dz, sin_lat, cos_lat, sin_lon, cos_lon) ==
    << FAdd(FSub(FMul(FMul(FNeg(sin_lat), cos_lon), dx),
                 FMul(FMul(sin_lat, sin_lon), dy)),
            FMul(cos_lat, dz)),
       FSub(FMul(sin_lon, dx), FMul(cos_lon, dy)),
       FSub(FSub(FMul(FMul(FNeg(cos_lat), cos_lon), dx),
                 FMul(FMul(cos_lat, sin_lon), dy)),
            FMul(sin_lat, dz)) >>

\* Mutant: the third component points up (an ENU-style axis).
Rotate_UpAxis(dx, dy, dz, sin_lat, cos_lat, sin_lon, cos_lon) ==
    << FAdd(FSub(FMul(FMul(FNeg(sin_lat), cos_lon), dx),
                 FMul(FMul(sin_lat, sin_lon), dy)),
            FMul(cos_lat, dz)),
       FAdd(FMul(FNeg(sin_lon), dx), FMul(cos_lon, dy)),
       FAdd(FAdd(FMul(FMul(cos_lat, cos_lon), dx),
                 FMul(FMul(cos_lat, sin_lon), dy)),
            FMul(sin_lat, dz)) >>

\* Lines 111-113: the rotation from ECEF to NED at the reference point.
Rotate(dx, dy, dz, sin_lat, cos_lat, sin_lon, cos_lon) ==
    << FAdd(FSub(FMul(FMul(FNeg(sin_lat), cos_lon), dx),
                 FMul(FMul(sin_lat, sin_lon), dy)),
            FMul(cos_lat, dz)),
       FAdd(FMul(FNeg(sin_lon), dx), FMul(cos_lon, dy)),
       FSub(FSub(FMul(FMul(FNeg(cos_lat), cos_lon), dx),
                 FMul(FMul(cos_lat, sin_lon), dy)),
            FMul(sin_lat, dz)) >>

\* Lines 99-115, r0 being the outcome of line 97.
NedFrom(x, y, z, r0, ref_lat, ref_lon) ==
    IF r0.exc # "none" THEN Raised(r0.exc)
    ELSE Returned(Rotate(FSub(x, r0.val[1]), FSub(y, r0.val[2]), FSub(z, r0.val[3]),
                         Sin(ref_lat), Cos(ref_lat), Sin(ref_lon), Cos(ref_lon)))

\* ecef_to_ned(x, y, z, ref_lat, ref_lon, ref_alt), x, y, z being floats.
ecef_to_ned(x, y, z, ref_lat, ref_lon, ref_alt) ==
    NedFrom(x, y, z, RefEcef(ref_lat, ref_lon, ref_alt), ref_lat, ref_lon)

(***************************************************************************)
(* Frames.  A pandas DataFrame is [n, cols, data]: n rows, the column      *)
(* labels in order, and for each label the sequence of its n cells.        *)
(***************************************************************************)
Range(q) == {q[j] : j \in 1..Len(q)}
HasCol(df, c) == c \in Range(df.cols)

\* A row as iterrows() yields it: label -> cell.
RowAt(df, j) == [c \in Range(df.cols) |-> df.data[c][j]]

\* df[c] = vals: a new label is appended, an existing one keeps its place.
SetCol(df, c, vals) ==
    [df EXCEPT !.cols = IF HasCol(df, c) THEN @ ELSE Append(@, c),
               !.data = [d \in Range(df.cols) \cup {c} |->
                            IF d = c THEN vals ELSE df.data[d]]]

\* df[c] = scalar: the scalar in every row.
SetScalar(df, c, val) == SetCol(df, c, [j \in 1..df.n |-> val])

\* df[labels]: the named columns, in the order given.
SelectCols(df, labels) ==
    [df EXCEPT !.cols = labels,
               !.data = [d \in Range(labels) |-> df.data[d]]]

\* df.drop(columns=labels), the labels being present.
DropCols(df, labels) ==
    SelectCols(df, SelectSeq(df.cols, LAMBDA c : c \notin Range(labels)))

ANGLE_COLUMNS == <<"roll", "pitch", "yaw", "mount_roll", "mount_pitch", "mount_yaw">>

OUTPUT_COLUMNS ==
    <<"timestamp", "entity_type", "entity_id", "platform_id",
      "pos_north", "pos_east", "pos_down",
      "vel_north", "vel_east", "vel_down",
      "roll", "pitch", "yaw",
      "sensor_type", "azimuth_fov", "elevation_fov", "range_min", "range_max",
      "mount_roll", "mount_pitch", "mount_yaw", "mount_type">>

LLA_COLUMNS == <<"pos_lat", "pos_lon", "pos_alt">>

\* config.get(key, default): a config is a record with the set `keys` of the
\* keys it holds; a key not in `keys` is absent from the dict.
Get(config, key, default) == IF key \in config.keys THEN config[key] ELSE default

(***************************************************************************)
(* convert_lla_to_ned, in three steps: the reference (lines 135-143), the  *)
(* loop body once per row (lines 150-163), and the column assignment and   *)
(* drop after the loop (lines 165-173).                                    *)
(* A reference specification is a Python value [py, s, d]: a str s, or a   *)
(* dict d (key -> cell).                                                   *)
(***************************************************************************)
PyStr(t) == [py |-> "str", s |-> t, d |-> [key \in {} |-> Zero]]
PyDict(d) == [py |-> "dict", s |-> "", d |-> d]

IsFirst(ref_config) == ref_config.py = "str" /\ ref_config.s = "first"
IsTriple(ref_config) ==
    ref_config.py = "dict" /\ {"lat", "lon", "alt"} \subseteq DOMAIN ref_config.d

\* Lines 137-139.  df["pos_lat"] raises KeyError on an absent column and
\* .iloc[0] raises IndexError on an empty one.
\* Mutant: an empty stream gets the origin as its reference.
FirstReference_EmptyAsOrigin(df) ==
    IF ~HasCol(df, "pos_lat") THEN Raised("KeyError")
    ELSE IF df.n = 0 THEN Returned(<<Zero, Zero, Zero>>)
    ELSE IF ~HasCol(df, "pos_lon") \/ ~HasCol(df, "pos_alt") THEN Raised("KeyError")
    ELSE Returned(<<df.data["pos_lat"][1], df.data["pos_lon"][1], df.data["pos_alt"][1]>>)

\* Mutant: the reference is taken from the last row (.iloc[-1]).
FirstReference_LastRow(df) ==
    IF ~HasCol(df, "pos_lat") THEN Raised("KeyError")
    ELSE IF df.n = 0 THEN Raised("IndexError")
    ELSE IF ~HasCol(df, "pos_lon") \/ ~HasCol(df, "pos_alt") THEN Raised("KeyError")
    ELSE Returned(<<df.data["pos_lat"][df.n], df.data["pos_lon"][df.n],
                    df.data["pos_alt"][df.n]>>)

FirstReference(df) ==
    IF ~HasCol(df, "pos_lat") THEN Raised("KeyError")
    ELSE IF df.n = 0 THEN Raised("IndexError")
    ELSE IF ~HasCol(df, "pos_lon") \/ ~HasCol(df, "pos_alt") THEN Raised("KeyError")
    ELSE Returned(<<df.data["pos_lat"][1], df.data["pos_lon"][1], df.data["pos_alt"][1]>>)

\* Lines 141-143.  A str is indexed with "lat", which raises TypeError; a
\* dict raises KeyError at its first missing key.
\* Mutant: a missing key, or a str, reads as 0.0.
ExplicitReference_MissingAsZero(ref_config) ==
    Returned(<<IF "lat" \in DOMAIN ref_config.d THEN ref_config.d["lat"] ELSE Zero,
               IF "lon" \in DOMAIN ref_config.d THEN ref_config.d["lon"] ELSE Zero,
               IF "alt" \in DOMAIN ref_config.d THEN ref_config.d["alt"] ELSE Zero>>)

ExplicitReference(ref_config) ==
    IF ref_config.py = "str" THEN Raised("TypeError")
    ELSE IF {"lat", "lon", "alt"} \subseteq DOMAIN ref_config.d
         THEN Returned(<<ref_config.d["lat"], ref_config.d["lon"], ref_config.d["alt"]>>)
         ELSE Raised("KeyError")

\* Lines 135-143.  Mutant: the first row is taken whatever the config says.
ResolveReference_IgnoreConfig(df, ref_config) == FirstReference(df)

ResolveReference(df, ref_config) ==
    IF IsFirst(ref_config) THEN FirstReference(df) ELSE ExplicitReference(ref_config)

\* Lines 158-159, e being the outcome of line 156.
NedOfEcef(e, ref) ==
    IF e.exc # "none" THEN Raised(e.exc)
    ELSE ecef_to_ned(e.val[1], e.val[2], e.val[3], ref[1], ref[2], ref[3])

\* Lines 151-159 for one row: the NED triple of the row, or the exception.
RowNed(row, ref) ==
    IF ~({"pos_lat", "pos_lon", "pos_alt"} \subseteq DOMAIN row) THEN Raised("KeyError")
    ELSE NedOfEcef(lla_to_ecef(row["pos_lat"], row["pos_lon"], row["pos_alt"]), ref)

\* Lines 161-163, r being the outcome of lines 151-159: the locals
\* loc = [ref, north_vals, east_vals, down_vals] after the body, and the
\* exception.
AppendNed(loc, r) ==
    IF r.exc # "none" THEN [exc |-> r.exc, loc |-> loc]
    ELSE [exc |-> "none",
          loc |-> [loc EXCEPT !.north_vals = Append(@, r.val[1]),
                              !.east_vals = Append(@, r.val[2]),
                              !.down_vals = Append(@, r.val[3])]]

\* Mutants of the loop body: the values are put in front of the lists; the
\* reference is taken again from the row; a NaN value repeats the value of
\* the row before.
PrependNed(loc, r) ==
    IF r.exc # "none" THEN [exc |-> r.exc, loc |-> loc]
    ELSE [exc |-> "none",
          loc |-> [loc EXCEPT !.north_vals = <<r.val[1]>> \o @,
                              !.east_vals = <<r.val[2]>> \o @,
                              !.down_vals = <<r.val[3]>> \o @]]

KeepLast(prev, v) == IF v.k = "nan" /\ Len(prev) > 0 THEN prev[Len(prev)] ELSE v

CarryNed(loc, r) ==
    IF r.exc # "none" THEN [exc |-> r.exc, loc |-> loc]
    ELSE [exc |-> "none",
          loc |-> [loc EXCEPT !.north_vals = Append(@, KeepLast(@, r.val[1])),
                              !.east_vals = Append(@, KeepLast(@, r.val[2])),
                              !.down_vals = Append(@, KeepLast(@, r.val[3]))]]

TakeRef(b, row) ==
    IF b.exc # "none" THEN b
    ELSE [b EXCEPT !.loc.ref = <<row["pos_lat"], row["pos_lon"], row["pos_alt"]>>]

LoopBody_Prepend(loc, row) == PrependNed(loc, RowNed(row, loc.ref))

LoopBody_ReResolve(loc, row) == TakeRef(AppendNed(loc, RowNed(row, loc.ref)), row)

LoopBody_CarryLast(loc, row) == CarryNed(loc, RowNed(row, loc.ref))

\* The loop body, lines 150-163.
LoopBody(loc, row) == AppendNed(loc, RowNed(row, loc.ref))

\* Lines 165-168: the three assignments, made on the caller's frame.
AssignNed(df, loc) ==
    SetCol(SetCol(SetCol(df, "pos_north", loc.north_vals),
                  "pos_east", loc.east_vals),
           "pos_down", loc.down_vals)

\* Line 171: drop raises KeyError when a label is not a column.
\* Mutant: only the NED columns are returned.
DropLla_NedOnly(df) ==
    IF Range(LLA_COLUMNS) \subseteq Range(df.cols)
    THEN Returned(SelectCols(df, <<"pos_north", "pos_east", "pos_down">>))
    ELSE Raised("KeyError")

DropLla(df) ==
    IF Range(LLA_COLUMNS) \subseteq Range(df.cols)
    THEN Returned(DropCols(df, LLA_COLUMNS))
    ELSE Raised("KeyError")

(***************************************************************************)
(* The other stages of convert().                                          *)
(***************************************************************************)
\* apply_column_mapping: a source that is a key of the mapping and a column
\* of the frame is renamed.  (The mappings of the model send no two columns
\* of a frame to one name.)
\* Mutant: a source of the mapping that the frame lacks is created: the
\* frame gains the target column, filled with NaN.
apply_column_mapping_CreateAbsent(df, mapping) ==
    LET rename(c) == IF c \in DOMAIN mapping THEN mapping[c] ELSE c
        src(d) == CHOOSE c \in Range(df.cols) : rename(c) = d
        absent == {c \in DOMAIN mapping : ~HasCol(df, c)}
        renamed == [df EXCEPT !.cols = [j \in 1..Len(df.cols) |-> rename(df.cols[j])],
                              !.data = [d \in {rename(c) : c \in Range(df.cols)} |->
                                          df.data[src(d)]]]
    IN  IF absent = {} THEN renamed
        ELSE SetScalar(renamed, mapping[CHOOSE c \in absent : TRUE], NaN)

apply_column_mapping(df, mapping) ==
    LET rename(c) == IF c \in DOMAIN mapping THEN mapping[c] ELSE c
        src(d) == CHOOSE c \in Range(df.cols) : rename(c) = d
    IN  [df EXCEPT !.cols = [j \in 1..Len(df.cols) |-> rename(df.cols[j])],
                   !.data = [d \in {rename(c) : c \in Range(df.cols)} |-> df.data[src(d)]]]

\* Lines 224-229: a key that is a list or a tuple is looked up as the tuple,
\* any other key as it is.  A key is a Python value [py, s, items]: a str s
\* or a tuple of str; the label of a tuple is its TupleLabel.
PyKeyStr(t) == [py |-> "str", s |-> t, items |-> <<>>]
PyKeyTuple(items) == [py |-> "tuple", s |-> "", items |-> items]

TupleLabel(items) ==
    IF Len(items) = 0 THEN "()"
    ELSE IF Len(items) = 1 THEN "('" \o items[1] \o "',)"
    ELSE "('" \o items[1] \o "', '" \o items[2] \o "')"

LabelOf(key) == IF key.py = "str" THEN key.s ELSE TupleLabel(key.items)

\* mapping.items() as a sequence of <<key, target>>, read as the function
\* from label to target that apply_column_mapping takes in this model.
MappingFrom(items) ==
    [lab \in {LabelOf(items[j][1]) : j \in 1..Len(items)} |->
        items[CHOOSE j \in 1..Len(items) : LabelOf(items[j][1]) = lab][2]]

\* pd.api.types.is_numeric_dtype(df[col]): the column holds floats only.
IsNumericDtype(vals) == \A j \in 1..Len(vals) : vals[j].k # "str"

\* math.degrees(x) = x * (180 / pi), 180 / pi being 57.30 in the model.
Degrees(x) == FMul(x, Num(5730))

\* convert_angles_to_degrees: ANGLE_COLUMNS in order.
RECURSIVE AnglesFrom(_, _)
AnglesFrom(df, j) ==
    IF j > Len(ANGLE_COLUMNS) THEN df
    ELSE LET col == ANGLE_COLUMNS[j]
         IN  IF HasCol(df, col) /\ IsNumericDtype(df.data[col])
             THEN AnglesFrom(
                    SetCol(df, col,
                           [r \in 1..df.n |->
                              IF df.data[col][r].k # "nan"
                              THEN Degrees(df.data[col][r])
                              ELSE df.data[col][r]]), j + 1)
             ELSE AnglesFrom(df, j + 1)

\* Mutant: every numeric column is converted, an angle column or not.
convert_angles_to_degrees_EveryColumn(df) ==
    [df EXCEPT !.data = [c \in Range(df.cols) |->
                           IF IsNumericDtype(df.data[c])
                           THEN [r \in 1..df.n |->
                                   IF df.data[c][r].k # "nan"
                                   THEN Degrees(df.data[c][r])
                                   ELSE df.data[c][r]]
                           ELSE df.data[c]]]

convert_angles_to_degrees(df) == AnglesFrom(df, 1)

\* apply_defaults: defaults is the dict as a sequence of <<column, value>>.
RECURSIVE DefaultsFrom(_, _, _)
DefaultsFrom(df, defaults, j) ==
    IF j > Len(defaults) THEN df
    ELSE LET col == defaults[j][1]
             default_value == defaults[j][2]
         IN  IF ~HasCol(df, col)
             THEN DefaultsFrom(SetScalar(df, col, default_value), defaults, j + 1)
             ELSE DefaultsFrom(
                    SetCol(df, col,
                           [r \in 1..df.n |->
                              IF df.data[col][r].k = "nan" THEN default_value
                              ELSE df.data[col][r]]), defaults, j + 1)

\* Mutant: after the defaults, rows that still hold a missing value are
\* dropped (df.dropna()).
DropNaRows(df) ==
    LET keep == SelectSeq([j \in 1..df.n |-> j],
                          LAMBDA j : \A c \in Range(df.cols) : df.data[c][j].k # "nan")
    IN  [df EXCEPT !.n = Len(keep),
                   !.data = [c \in Range(df.cols) |->
                               [m \in 1..Len(keep) |-> df.data[c][keep[m]]]]]

apply_defaults_Dropna(df, defaults) == DropNaRows(DefaultsFrom(df, defaults, 1))

\* Mutant: a present column is overwritten with the default in every row.
RECURSIVE OverwriteFrom(_, _, _)
OverwriteFrom(df, defaults, j) ==
    IF j > Len(defaults) THEN df
    ELSE OverwriteFrom(SetScalar(df, defaults[j][1], defaults[j][2]), defaults, j + 1)

apply_defaults_Overwrite(df, defaults) == OverwriteFrom(df, defaults, 1)

apply_defaults(df, defaults) == DefaultsFrom(df, defaults, 1)

\* format_output lines 304-320: entity_id, entity_type, platform_id.
\* Mutant: entity_type and platform_id are set only where the frame has no
\* such column.
SetEntity_KeepMapped(df, entity_id_config) ==
    LET d1 == IF "column" \in entity_id_config.keys
              THEN IF HasCol(df, entity_id_config.column)
                   THEN SetCol(df, "entity_id", df.data[entity_id_config.column])
                   ELSE SetScalar(df, "entity_id", Str("p1"))
              ELSE IF "fixed" \in entity_id_config.keys
                   THEN SetScalar(df, "entity_id", Str(entity_id_config.fixed))
                   ELSE SetScalar(df, "entity_id", Str("p1"))
        d2 == IF HasCol(d1, "entity_type") THEN d1
              ELSE SetScalar(d1, "entity_type", Str("platform"))
    IN  IF HasCol(d2, "platform_id") THEN d2
        ELSE SetCol(d2, "platform_id", d2.data["entity_id"])

\* Mutant: when the named column is missing, a "fixed" value is used if the
\* config has one.
SetEntity_FixedFallback(df, entity_id_config) ==
    LET d1 == IF "column" \in entity_id_config.keys /\ HasCol(df, entity_id_config.column)
              THEN SetCol(df, "entity_id", df.data[entity_id_config.column])
              ELSE IF "fixed" \in entity_id_config.keys
                   THEN SetScalar(df, "entity_id", Str(entity_id_config.fixed))
                   ELSE SetScalar(df, "entity_id", Str("p1"))
        d2 == SetScalar(d1, "entity_type", Str("platform"))
    IN  SetCol(d2, "platform_id", d2.data["entity_id"])

SetEntity(df, entity_id_config) ==
    LET d1 == IF "column" \in entity_id_config.keys
              THEN IF HasCol(df, entity_id_config.column)
                   THEN SetCol(df, "entity_id", df.data[entity_id_config.column])
                   ELSE SetScalar(df, "entity_id", Str("p1"))
              ELSE IF "fixed" \in entity_id_config.keys
                   THEN SetScalar(df, "entity_id", Str(entity_id_config.fixed))
                   ELSE SetScalar(df, "entity_id", Str("p1"))
        d2 == SetScalar(d1, "entity_type", Str("platform"))
    IN  SetCol(d2, "platform_id", d2.data["entity_id"])

\* format_output lines 326-329: every output column exists.
RECURSIVE EnsureFrom(_, _)
EnsureFrom(df, j) ==
    IF j > Len(OUTPUT_COLUMNS) THEN df
    ELSE IF HasCol(df, OUTPUT_COLUMNS[j]) THEN EnsureFrom(df, j + 1)
    ELSE EnsureFrom(SetScalar(df, OUTPUT_COLUMNS[j], Str("")), j + 1)

\* format_output.  The frames of this model hold no "timestamp" column, so
\* the guard of line 323 is false and parse_timestamp is not entered.
\* Mutant: the columns are not reordered (line 332 returns df).
format_output_NoReorder(df, entity_id_config) ==
    EnsureFrom(SetEntity(df, entity_id_config), 1)

format_output(df, entity_id_config) ==
    SelectCols(EnsureFrom(SetEntity(df, entity_id_config), 1), OUTPUT_COLUMNS)

(***************************************************************************)
(* Inputs of the model.                                                    *)
(***************************************************************************)
\* The longest position stream of a call.
MaxRows == 3

Metres(m) == Num(m * FloatUnit)

\* Rows of an input file, as <<latitude, longitude, altitude, heading>>
\* cells: two geodetic points, and rows with a NaN latitude, an infinite
\* altitude, an infinite latitude and a non-numeric longitude.  The heading
\* is 1.00 rad, 2.00 rad or missing.
RowSet ==
    { <<Num(70), Num(-122), Metres(100), Num(100)>>,
      <<Num(80), Num(-122), Metres(110), NaN>>,
      <<NaN, Num(-122), Metres(100), Num(200)>>,
      <<Num(70), Num(-122), PInf, Num(100)>>,
      <<PInf, Num(-122), Metres(100), Num(100)>>,
      <<Num(70), Str("abc"), Metres(100), Num(100)>> }

Streams == UNION {[1..n -> RowSet] : n \in 0..MaxRows}

\* The frame pd.read_csv returns for a file whose rows are `stream`: the
\* position in the source columns c1, c2, c3, the heading, and a column
\* "kind" that holds "sensor" in every row.
\* pd.read_csv infers one dtype per column: a column with a non-numeric cell
\* is an object column whose cells are the str of the file (an empty cell
\* stays NaN); any other column is float64.
SOURCE_COLUMNS == <<"c1", "c2", "c3", "heading", "kind">>

IsObjectColumn(stream, k) == \E j \in 1..Len(stream) : stream[j][k].k = "str"

ReadCell(cell, object) ==
    IF ~object \/ cell.k \in {"str", "nan"} THEN cell
    ELSE IF cell.k = "inf" THEN Str(IF cell.v > 0 THEN "inf" ELSE "-inf")
    ELSE Str(ToString(cell.v))

ReadColumn(stream, k) ==
    [j \in 1..Len(stream) |-> ReadCell(stream[j][k], IsObjectColumn(stream, k))]

ReadFrame(stream) ==
    [n |-> Len(stream),
     cols |-> SOURCE_COLUMNS,
     data |-> [c \in Range(SOURCE_COLUMNS) |->
                CASE c = "c1" -> ReadColumn(stream, 1)
                  [] c = "c2" -> ReadColumn(stream, 2)
                  [] c = "c3" -> ReadColumn(stream, 3)
                  [] c = "heading" -> ReadColumn(stream, 4)
                  [] OTHER -> [j \in 1..Len(stream) |-> Str("sensor")]]]

\* Column mappings of a config: to the LLA columns, or to the NED columns;
\* the first sends "kind" to entity_type, the second to platform_id.
MappingNames == {"lla", "ned"}

MappingOf(name) ==
    [c \in Range(SOURCE_COLUMNS) |->
        CASE c = "c1" -> IF name = "lla" THEN "pos_lat" ELSE "pos_north"
          [] c = "c2" -> IF name = "lla" THEN "pos_lon" ELSE "pos_east"
          [] c = "c3" -> IF name = "lla" THEN "pos_alt" ELSE "pos_down"
          [] c = "heading" -> "yaw"
          [] OTHER -> IF name = "lla" THEN "entity_type" ELSE "platform_id"]

\* Reference specifications of a config: the str "first", another str, and
\* dicts over two points with all three keys or with some missing.
RefPointP == [key \in {"lat", "lon", "alt"} |->
                CASE key = "lat" -> Num(70) [] key = "lon" -> Num(-122)
                  [] OTHER -> Metres(100)]
RefPointQ == [key \in {"lat", "lon", "alt"} |-> Zero]

RefNames == {"first", "origin", "P", "Q", "P-lat", "P-lon", "P-alt", "empty"}

RefOf(name) ==
    LET without(key) == [kk \in {"lat", "lon", "alt"} \ {key} |-> RefPointP[kk]]
    IN  CASE name = "first" -> PyStr("first")
          [] name = "origin" -> PyStr("origin")
          [] name = "P" -> PyDict(RefPointP)
          [] name = "Q" -> PyDict(RefPointQ)
          [] name = "P-lat" -> PyDict(without("lat"))
          [] name = "P-lon" -> PyDict(without("lon"))
          [] name = "P-alt" -> PyDict(without("alt"))
          [] OTHER -> PyDict([kk \in {} |-> Zero])

\* The defaults of a config that has some: a column no mapping produces,
\* an angle column and a position column.
DEFAULTS == <<<<"roll", Num(25)>>, <<"yaw", Num(50)>>, <<"pos_north", Zero>>>>

\* The config dict convert() is called with.  The keys of `opt` are present,
\* the others absent; column_mapping is always given.
ConfigOf(mapping, opt, coordinate_system, ref, angle_units) ==
    [keys |-> {"column_mapping"} \cup opt,
     column_mapping |-> MappingOf(mapping),
     coordinate_system |-> IF "coordinate_system" \in opt THEN coordinate_system ELSE "",
     lla_reference |-> IF "lla_reference" \in opt THEN RefOf(ref) ELSE PyStr(""),
     angle_units |-> IF "angle_units" \in opt THEN angle_units ELSE "",
     defaults |-> IF "defaults" \in opt THEN DEFAULTS ELSE <<>>,
     entity_id |-> [keys |-> {}, column |-> "", fixed |-> ""]]

(***************************************************************************)
(* The state of one process that calls convert() again and again.          *)
(*   pc      where convert() stands: "idle" before the first call, then    *)
(*           "read", "map", "lla" (before the reference is resolved),      *)
(*           "loop" (in the row loop), "angles", "defaults", "format",     *)
(*           "write", and "done" once it has returned                      *)
(*   exc     the exception convert() has raised at pc, or "none"           *)
(*   config  the config of the call                                        *)
(*   input   the frame as pd.read_csv returned it                          *)
(*   df      the frame the stages work on                                  *)
(*   loc     the locals of convert_lla_to_ned: ref (<<>> until resolved,   *)
(*           then <<ref_lat, ref_lon, ref_alt>>), north_vals, east_vals,   *)
(*           down_vals                                                     *)
(*   i       the row iterrows() yields next                                *)
(*   file    the output file of the call: written or not, and its frame    *)
(* Four more variables serve the specifications SpecFn, SpecPair,          *)
(* SpecCall and SpecCli below and stay as they are under Spec:             *)
(*   fn      one evaluation of lla_to_ecef followed by ecef_to_ned         *)
(*   pair    two runs of the row loop side by side                         *)
(*   call    one call of one of the frame functions of the module          *)
(*   cli     one run of main(): the arguments, the config it builds and    *)
(*           how the run ends                                              *)
(***************************************************************************)
VARIABLES pc, exc, config, input, df, loc, i, file, fn, pair, call, cli

vars == <<pc, exc, config, input, df, loc, i, file, fn, pair, call, cli>>
convertVars == <<pc, exc, config, input, df, loc, i, file>>

EmptyFrame == [n |-> 0, cols |-> <<>>, data |-> [c \in {} |-> <<>>]]
NoFile == [written |-> FALSE, frame |-> EmptyFrame]
NoLocals == [ref |-> <<>>, north_vals |-> <<>>, east_vals |-> <<>>, down_vals |-> <<>>]
NoFn == [phase |-> "off", p |-> <<>>, r |-> <<>>, ecef |-> <<>>, ned |-> <<>>]
NoPair == [phase |-> "off", a |-> <<>>, b |-> <<>>, ref_config |-> PyStr("first"),
           locA |-> NoLocals, iA |-> 1, refB |-> <<>>, outB |-> <<>>]
NoCall == [phase |-> "off", op |-> "", df |-> EmptyFrame, arg |-> <<>>, out |-> <<>>]
NoCli == [phase |-> "off", args |-> <<>>, file |-> <<>>, loaded |-> <<>>, config |-> <<>>,
          status |-> 0, stderr |-> "", called |-> FALSE, written |-> FALSE]

ConvertIdle ==
    /\ pc = "idle"
    /\ exc = "none"
    /\ config = ConfigOf("lla", {}, "", "first", "")
    /\ input = EmptyFrame
    /\ df = EmptyFrame
    /\ loc = NoLocals
    /\ i = 1
    /\ file = NoFile

Init ==
    /\ ConvertIdle
    /\ fn = NoFn
    /\ pair = NoPair
    /\ call = NoCall
    /\ cli = NoCli

Running == pc \notin {"idle", "done"} /\ exc = "none"

\* Lines 416-417: coordinate_system is "lla".
\* Mutant: a config without coordinate_system counts as "lla".
LlaMode_DefaultLla == Get(config, "coordinate_system", "lla") = "lla"

LlaMode == Get(config, "coordinate_system", "ned") = "lla"

\* Lines 422-423: angle_units is "radians".
\* Mutant: a config without angle_units counts as "radians".
AngleRadians_DefaultRadians == Get(config, "angle_units", "radians") = "radians"

AngleRadians == Get(config, "angle_units", "degrees") = "radians"

\* convert() is called, on a fresh output path.
Call ==
    /\ pc = "idle"
    /\ \E mapping \in MappingNames,
          opt \in SUBSET {"coordinate_system", "lla_reference", "angle_units", "defaults"},
          coordinate_system \in {"ned", "lla"},
          ref \in RefNames,
          angle_units \in {"radians", "degrees"} :
            config' = ConfigOf(mapping, opt, coordinate_system, ref, angle_units)
    /\ pc' = "read"
    /\ UNCHANGED <<exc, input, df, loc, i, file>>
    /\ UNCHANGED <<fn, pair, call, cli>>

\* Mutant: the resolved reference is kept after the call, as a module-level
\* variable would keep it.
Return_KeepReference ==
    /\ pc # "idle" /\ ~Running
    /\ pc' = "idle"
    /\ exc' = "none"
    /\ config' = ConfigOf("lla", {}, "", "first", "")
    /\ input' = EmptyFrame
    /\ df' = EmptyFrame
    /\ loc' = [NoLocals EXCEPT !.ref = loc.ref]
    /\ i' = 1
    /\ file' = NoFile
    /\ UNCHANGED <<fn, pair, call, cli>>

\* convert() has returned or raised: its caller goes on, the frame and the
\* locals of the call are gone.
Return ==
    /\ pc # "idle" /\ ~Running
    /\ pc' = "idle"
    /\ exc' = "none"
    /\ config' = ConfigOf("lla", {}, "", "first", "")
    /\ input' = EmptyFrame
    /\ df' = EmptyFrame
    /\ loc' = NoLocals
    /\ i' = 1
    /\ file' = NoFile
    /\ UNCHANGED <<fn, pair, call, cli>>

\* Lines 404-409 (one header row): the file cannot be read, or holds a stream.
ReadCsv ==
    /\ Running /\ pc = "read"
    /\ \/ /\ exc' = "FileNotFoundError"
          /\ UNCHANGED <<pc, input, df>>
       \/ /\ \E stream \in Streams :
                /\ df' = ReadFrame(stream)
                /\ input' = ReadFrame(stream)
          /\ pc' = "map"
          /\ exc' = "none"
    /\ UNCHANGED <<config, loc, i, file>>
    /\ UNCHANGED <<fn, pair, call, cli>>

\* Lines 412-413.
ApplyColumnMapping ==
    /\ Running /\ pc = "map"
    /\ df' = apply_column_mapping(df, config.column_mapping)
    /\ pc' = "lla"
    /\ UNCHANGED <<exc, config, input, loc, i, file>>
    /\ UNCHANGED <<fn, pair, call, cli>>

\* Lines 416-417 when coordinate_system is not "lla".
SkipLla ==
    /\ Running /\ pc = "lla"
    /\ ~LlaMode
    /\ pc' = "angles"
    /\ UNCHANGED <<exc, config, input, df, loc, i, file>>
    /\ UNCHANGED <<fn, pair, call, cli>>

\* Lines 418-419 and 135-148: the reference is resolved and the lists are
\* created.
ResolveRef ==
    /\ Running /\ pc = "lla"
    /\ LlaMode
    /\ \E r \in {ResolveReference(df, Get(config, "lla_reference", PyStr("first")))} :
           IF r.exc # "none"
           THEN /\ exc' = r.exc
                /\ UNCHANGED <<pc, loc, i>>
           ELSE /\ loc' = [NoLocals EXCEPT !.ref = r.val]
                /\ i' = 1
                /\ pc' = "loop"
                /\ exc' = "none"
    /\ UNCHANGED <<config, input, df, file>>
    /\ UNCHANGED <<fn, pair, call, cli>>

\* Mutant: each row's north value is written into the frame as soon as it
\* is computed (df.loc[idx, "pos_north"] = north).
RowTransform_AssignEachRow ==
    /\ Running /\ pc = "loop"
    /\ i <= df.n
    /\ \E b \in {LoopBody(loc, RowAt(df, i))} :
           /\ exc' = b.exc
           /\ loc' = b.loc
           /\ df' = IF b.exc # "none" THEN df
                    ELSE SetCol(df, "pos_north",
                                [j \in 1..df.n |->
                                   IF j <= Len(b.loc.north_vals)
                                   THEN b.loc.north_vals[j] ELSE NaN])
    /\ i' = i + 1
    /\ UNCHANGED <<pc, config, input, file>>
    /\ UNCHANGED <<fn, pair, call, cli>>

\* Lines 150-163 for the next row.
RowTransform ==
    /\ Running /\ pc = "loop"
    /\ i <= df.n
    /\ \E b \in {LoopBody(loc, RowAt(df, i))} :
           /\ exc' = b.exc
           /\ loc' = b.loc
    /\ i' = i + 1
    /\ UNCHANGED <<pc, config, input, df, file>>
    /\ UNCHANGED <<fn, pair, call, cli>>

\* Lines 165-173 once iterrows() is exhausted.  A list whose length is not
\* the length of the index makes the assignment raise ValueError.
FinishLla ==
    /\ Running /\ pc = "loop"
    /\ i > df.n
    /\ IF Len(loc.north_vals) # df.n
       THEN /\ exc' = "ValueError"
            /\ UNCHANGED <<pc, df>>
       ELSE \E r \in {DropLla(AssignNed(df, loc))} :
                IF r.exc # "none"
                THEN /\ exc' = r.exc
                     /\ df' = AssignNed(df, loc)
                     /\ pc' = pc
                ELSE /\ df' = r.val
                     /\ pc' = "angles"
                     /\ exc' = "none"
    /\ UNCHANGED <<config, input, loc, i, file>>
    /\ UNCHANGED <<fn, pair, call, cli>>

\* Mutant: the defaults are filled in before the angles are converted.
ConvertAngles_AfterDefaults ==
    /\ Running /\ pc = "angles"
    /\ df' = IF AngleRadians
             THEN convert_angles_to_degrees(apply_defaults(df, Get(config, "defaults", <<>>)))
             ELSE df
    /\ pc' = "defaults"
    /\ UNCHANGED <<exc, config, input, loc, i, file>>
    /\ UNCHANGED <<fn, pair, call, cli>>

\* Lines 422-424.
ConvertAngles ==
    /\ Running /\ pc = "angles"
    /\ df' = IF AngleRadians
             THEN convert_angles_to_degrees(df)
             ELSE df
    /\ pc' = "defaults"
    /\ UNCHANGED <<exc, config, input, loc, i, file>>
    /\ UNCHANGED <<fn, pair, call, cli>>

\* Lines 427-428.
ApplyDefaults ==
    /\ Running /\ pc = "defaults"
    /\ df' = apply_defaults(df, Get(config, "defaults", <<>>))
    /\ pc' = "format"
    /\ UNCHANGED <<exc, config, input, loc, i, file>>
    /\ UNCHANGED <<fn, pair, call, cli>>

\* Lines 431-432.
FormatOutput ==
    /\ Running /\ pc = "format"
    /\ df' = format_output(df, Get(config, "entity_id",
                                   [keys |-> {"fixed"}, column |-> "", fixed |-> "p1"]))
    /\ pc' = "write"
    /\ UNCHANGED <<exc, config, input, loc, i, file>>
    /\ UNCHANGED <<fn, pair, call, cli>>

\* Lines 435-437: to_csv cannot open the output path, or writes the frame.
WriteCsv ==
    /\ Running /\ pc = "write"
    /\ \/ /\ exc' = "OSError"
          /\ UNCHANGED <<pc, file>>
       \/ /\ file' = [written |-> TRUE, frame |-> df]
          /\ pc' = "done"
          /\ exc' = "none"
    /\ UNCHANGED <<config, input, df, loc, i>>
    /\ UNCHANGED <<fn, pair, call, cli>>

Next ==
    \/ Call
    \/ Return
    \/ ReadCsv
    \/ ApplyColumnMapping
    \/ SkipLla
    \/ ResolveRef
    \/ RowTransform
    \/ FinishLla
    \/ ConvertAngles
    \/ ApplyDefaults
    \/ FormatOutput
    \/ WriteCsv

Spec == Init /\ [][Next]_vars

(***************************************************************************)
(* Properties of convert_lla_to_ned and convert(), under Spec.             *)
(***************************************************************************)
RefSpec == Get(config, "lla_reference", PyStr("first"))

\* The position stream of the call: the file's rows, which the mapping "lla"
\* sends to pos_lat, pos_lon, pos_alt.
HasStream == input.cols = SOURCE_COLUMNS /\ config.column_mapping = MappingOf("lla")
StreamRow(j) == <<input.data["c1"][j], input.data["c2"][j], input.data["c3"][j]>>
IsFinite(cell) == cell.k = "num"
IsPoint(row) == IsFinite(row[1]) /\ IsFinite(row[2]) /\ IsFinite(row[3])

\* convert_lla_to_ned has just returned.
LlaReturned == pc = "angles" /\ exc = "none" /\ LlaMode

\* Row j of the NED stream it returned.
NedRow(j) == <<df.data["pos_north"][j], df.data["pos_east"][j], df.data["pos_down"][j]>>

\* C1: a successful convert_lla_to_ned returns as many NED rows as the
\* stream has rows, and row j of them is ecef_to_ned(lla_to_ecef(row j of the
\* stream), reference), for every j.
C1_RowsInOrder ==
    LlaReturned =>
        /\ df.n = input.n
        /\ Len(df.data["pos_north"]) = input.n
        /\ Len(df.data["pos_east"]) = input.n
        /\ Len(df.data["pos_down"]) = input.n
        /\ \A j \in 1..input.n :
              NedRow(j) = NedOfEcef(lla_to_ecef(StreamRow(j)[1], StreamRow(j)[2],
                                                StreamRow(j)[3]), loc.ref).val

C1_Witness ==
    /\ LlaReturned
    /\ input.n >= 2
    /\ StreamRow(1) # StreamRow(2)
    /\ IsPoint(StreamRow(1)) /\ IsPoint(StreamRow(2))

\* C2: in "first" mode, for every non-empty stream, the reference is the
\* first row of the stream and row 1 of the NED stream is (0, 0, 0).
C2_FirstRowAtOrigin ==
    (LlaReturned /\ IsFirst(RefSpec) /\ input.n > 0) =>
        /\ loc.ref = StreamRow(1)
        /\ NedRow(1) = <<Zero, Zero, Zero>>

\* C4, as the spec states it: "first" mode on an empty stream fails with an
\* EmptyStreamError.
C4_EmptyStreamError ==
    (pc = "lla" /\ LlaMode /\ IsFirst(RefSpec) /\ HasStream /\ input.n = 0
        /\ exc # "none") => exc = "EmptyStreamError"

\* C4, amended: when "first" mode meets an empty stream, the step that
\* resolves the reference raises IndexError; no reference is set, no list is
\* created and the row loop is not entered.
C4_EmptyFirstRaisesIndexError ==
    [][(Running /\ pc = "lla" /\ LlaMode /\ IsFirst(RefSpec) /\ HasStream /\ input.n = 0)
        => (exc' = "IndexError" /\ pc' = "lla" /\ loc' = NoLocals /\ df' = df)]_vars

C4_Witness ==
    /\ pc = "lla" /\ LlaMode /\ IsFirst(RefSpec) /\ HasStream /\ input.n = 0
    /\ exc = "IndexError"

\* C5: with a dict holding lat, lon and alt the reference is that triple
\* whatever the stream holds, and an empty stream is accepted: no step of
\* convert_lla_to_ned raises and it returns an empty NED stream.
C5_ExplicitReference ==
    (LlaMode /\ IsTriple(RefSpec) /\ HasStream) =>
        /\ pc \in {"loop", "angles"} =>
              loc.ref = <<RefSpec.d["lat"], RefSpec.d["lon"], RefSpec.d["alt"]>>
        /\ (input.n = 0 /\ pc \in {"lla", "loop"}) => exc = "none"
        /\ (input.n = 0 /\ pc = "angles") =>
              /\ df.n = 0
              /\ df.data["pos_north"] = <<>>
              /\ df.data["pos_east"] = <<>>
              /\ df.data["pos_down"] = <<>>

C5_Witness ==
    /\ LlaReturned /\ IsTriple(RefSpec) /\ HasStream /\ input.n = 0
    /\ df.data["pos_north"] = <<>>

\* C6: a reference specification that is neither "first" nor a dict with
\* lat, lon and alt makes the step that resolves the reference raise
\* (TypeError for a str, KeyError for a dict), before the row loop: no
\* reference is set and no row is transformed.
InvalidRefSpec == ~IsFirst(RefSpec) /\ ~IsTriple(RefSpec)

C6_InvalidReferenceRaises ==
    [][(Running /\ pc = "lla" /\ LlaMode /\ InvalidRefSpec)
        => (/\ exc' = (IF RefSpec.py = "str" THEN "TypeError" ELSE "KeyError")
            /\ pc' = "lla" /\ loc' = NoLocals /\ df' = df)]_vars

C6_Witness ==
    /\ pc = "lla" /\ LlaMode /\ InvalidRefSpec /\ exc = "KeyError" /\ input.n > 0
    /\ DOMAIN RefSpec.d = {"lat", "lon"}

\* C7: if a row's latitude, longitude or altitude is non-numeric or not
\* finite, the batch fails: convert_lla_to_ned returns only for streams whose
\* rows are all finite numbers.
C7_InvalidSampleFails ==
    (LlaReturned /\ HasStream) => \A j \in 1..input.n : IsPoint(StreamRow(j))

\* C8: the output file is written only by the last step of convert(), after
\* every stage has succeeded; it holds the frame convert() returns, which has
\* one row per row of the input.
C8_NoPartialOutput ==
    /\ file.written =>
          /\ pc = "done" /\ exc = "none"
          /\ file.frame = df
          /\ file.frame.n = input.n
          /\ \A c \in Range(file.frame.cols) : Len(file.frame.data[c]) = input.n
    /\ (pc = "done") => file.written

C8_Witness ==
    /\ pc = "done" /\ file.written /\ LlaMode /\ input.n >= 2
    /\ file.frame.data["pos_north"][2].k = "nan"

\* C9: a row is transformed only with a resolved reference, which the step
\* leaves as it is; the reference changes only when it is resolved, once,
\* from unset and before any row is transformed, or when the call ends.
C9_ReferenceResolvedOnce ==
    [][/\ (pc = "loop" /\ i' = i + 1) => (Len(loc.ref) = 3 /\ loc'.ref = loc.ref)
       /\ (loc'.ref # loc.ref) =>
             \/ /\ pc = "lla" /\ pc' = "loop"
                /\ loc.ref = <<>> /\ Len(loc'.ref) = 3
                /\ i' = 1 /\ loc'.north_vals = <<>>
             \/ pc' = "idle" /\ loc'.ref = <<>>]_vars

C9_Witness ==
    /\ pc = "loop" /\ i = 3 /\ exc = "none"
    /\ IsFirst(RefSpec) /\ HasStream
    /\ StreamRow(2) # StreamRow(1)

(***************************************************************************)
(* SpecFn: lla_to_ecef and ecef_to_ned as pure functions.  A geodetic      *)
(* point p and a reference point r are drawn from a grid of finite         *)
(* latitudes, longitudes and altitudes; lla_to_ecef(p) is evaluated, then  *)
(* ecef_to_ned of the result at r.                                         *)
(***************************************************************************)
FnLats == {Num(0), Num(70), Num(80)}
FnLons == {Num(0), Num(-122), Num(-112), Num(-300), Num(300)}
FnAlts == {Zero, Metres(100), Metres(110), Metres(1000)}
GeodeticPoints == {<<lat, lon, alt>> : lat \in FnLats, lon \in FnLons, alt \in FnAlts}

FnInit ==
    /\ ConvertIdle
    /\ pair = NoPair
    /\ call = NoCall
    /\ cli = NoCli
    /\ \E p \in GeodeticPoints, r \in GeodeticPoints :
           fn = [phase |-> "args", p |-> p, r |-> r, ecef |-> <<>>, ned |-> <<>>]

\* x, y, z = lla_to_ecef(lat, lon, alt)
ApplyLlaToEcef ==
    /\ fn.phase = "args"
    /\ \E e \in {lla_to_ecef(fn.p[1], fn.p[2], fn.p[3])} :
           fn' = [fn EXCEPT !.phase = IF e.exc = "none" THEN "ecef" ELSE e.exc,
                            !.ecef = e.val]
    /\ UNCHANGED <<convertVars, pair, call, cli>>

\* n, e, d = ecef_to_ned(x, y, z, ref_lat, ref_lon, ref_alt)
ApplyEcefToNed ==
    /\ fn.phase = "ecef"
    /\ \E t \in {ecef_to_ned(fn.ecef[1], fn.ecef[2], fn.ecef[3],
                             fn.r[1], fn.r[2], fn.r[3])} :
           fn' = [fn EXCEPT !.phase = IF t.exc = "none" THEN "ned" ELSE t.exc,
                            !.ned = t.val]
    /\ UNCHANGED <<convertVars, pair, call, cli>>

FnNext == ApplyLlaToEcef \/ ApplyEcefToNed

SpecFn == FnInit /\ [][FnNext]_vars

\* C3: for every geodetic point R, ecef_to_ned(lla_to_ecef(R), R) is
\* (0, 0, 0): neither call raises, and the three components are exactly zero.
C3_ReferenceIdentity ==
    fn.p = fn.r =>
        /\ fn.phase \in {"args", "ecef", "ned"}
        /\ fn.phase = "ned" => fn.ned = <<Zero, Zero, Zero>>

C3_Witness ==
    /\ fn.phase = "ned" /\ fn.p = fn.r
    /\ fn.p = <<Num(70), Num(-122), Metres(1000)>>
    /\ fn.ned = <<Zero, Zero, Zero>>

(***************************************************************************)
(* SpecPair: two runs of the row loop of convert_lla_to_ned side by side,  *)
(* on streams a and b of the same length and with the same reference       *)
(* specification.  Run A is the loop as the code runs it: row after row,   *)
(* appending to the three lists.  Run B applies the loop body to the rows  *)
(* of b one at a time in any order, each on its own with the resolved      *)
(* reference, and writes the result at the row's index of outB.            *)
(***************************************************************************)
MaxPairRows == 2

\* Rows whose transform returns: two geodetic points and a NaN latitude.
PairRowSet ==
    { <<Num(70), Num(-122), Metres(100), Num(100)>>,
      <<Num(80), Num(-122), Metres(110), NaN>>,
      <<NaN, Num(-122), Metres(100), Num(200)>> }

PairRefNames == {"first", "P", "Q"}

\* The frame convert_lla_to_ned is called on for the rows of `stream`.
LlaFrame(stream) == apply_column_mapping(ReadFrame(stream), MappingOf("lla"))

PairInit ==
    /\ ConvertIdle
    /\ fn = NoFn
    /\ call = NoCall
    /\ cli = NoCli
    /\ \E n \in 1..MaxPairRows :
         \E a \in [1..n -> PairRowSet], b \in [1..n -> PairRowSet], ref \in PairRefNames :
           pair = [phase |-> "lla", a |-> a, b |-> b, ref_config |-> RefOf(ref),
                   locA |-> NoLocals, iA |-> 1, refB |-> <<>>,
                   outB |-> [j \in 1..n |-> <<>>]]

\* Lines 136-143 in both runs.
PairResolve ==
    /\ pair.phase = "lla"
    /\ \E ra \in {ResolveReference(LlaFrame(pair.a), pair.ref_config)},
          rb \in {ResolveReference(LlaFrame(pair.b), pair.ref_config)} :
           pair' = [pair EXCEPT
                      !.phase = IF ra.exc = "none" /\ rb.exc = "none" THEN "loop" ELSE "raised",
                      !.locA = [NoLocals EXCEPT !.ref = ra.val],
                      !.refB = rb.val]
    /\ UNCHANGED <<convertVars, fn, call, cli>>

\* Run A: lines 150-163 for the next row of a.
PairSeqRow ==
    /\ pair.phase = "loop"
    /\ pair.iA <= Len(pair.a)
    /\ \E t \in {LoopBody(pair.locA, RowAt(LlaFrame(pair.a), pair.iA))} :
           pair' = [pair EXCEPT
                      !.phase = IF t.exc = "none" THEN "loop" ELSE "raised",
                      !.locA = t.loc,
                      !.iA = @ + 1]
    /\ UNCHANGED <<convertVars, fn, call, cli>>

\* Run B: lines 150-163 for any row j of b not yet computed, on its own, the
\* result written at index j.
PairAnyRow ==
    /\ pair.phase = "loop"
    /\ \E j \in 1..Len(pair.b) :
         /\ pair.outB[j] = <<>>
         /\ \E t \in {LoopBody([NoLocals EXCEPT !.ref = pair.refB],
                               RowAt(LlaFrame(pair.b), j))} :
              pair' = [pair EXCEPT
                         !.phase = IF t.exc = "none" THEN "loop" ELSE "raised",
                         !.outB[j] = IF t.exc = "none"
                                     THEN <<t.loc.north_vals[1], t.loc.east_vals[1],
                                            t.loc.down_vals[1]>>
                                     ELSE <<>>]
    /\ UNCHANGED <<convertVars, fn, call, cli>>

PairNext == PairResolve \/ PairSeqRow \/ PairAnyRow

SpecPair == PairInit /\ [][PairNext]_vars

\* Both runs have computed every row.
PairFinished ==
    /\ pair.phase = "loop"
    /\ pair.iA > Len(pair.a)
    /\ \A j \in 1..Len(pair.b) : pair.outB[j] # <<>>

PairOutA(j) == <<pair.locA.north_vals[j], pair.locA.east_vals[j], pair.locA.down_vals[j]>>

\* C10: with the same resolved reference, row j of the sequential loop's
\* output on stream a equals row j computed on its own, in any order, from
\* stream b whenever a and b agree at row j, whatever their other rows are;
\* for a = b the any-order run yields the sequential output stream.
C10_RowIndependence ==
    (PairFinished /\ pair.locA.ref = pair.refB) =>
        /\ Len(pair.locA.north_vals) = Len(pair.a)
        /\ \A j \in 1..Len(pair.a) :
               pair.a[j] = pair.b[j] => PairOutA(j) = pair.outB[j]

\* The streams differ in the row before a NaN row they share, under an
\* explicit reference.
C10_Witness ==
    /\ PairFinished /\ pair.locA.ref = pair.refB
    /\ Len(pair.a) = 2
    /\ pair.a[1] # pair.b[1] /\ IsPoint(pair.a[1]) /\ IsPoint(pair.b[1])
    /\ pair.a[2] = pair.b[2] /\ pair.a[2][1] = NaN
    /\ PairOutA(1) # pair.outB[1]
    /\ PairOutA(2) = pair.outB[2]

\* The position of row j of a stream.
PositionOf(row) == <<row[1], row[2], row[3]>>

\* C11: reference resolution is deterministic.  In "first" mode two streams
\* whose first rows hold the same position resolve to the same reference,
\* whatever their other rows are; with an explicit triple any two streams
\* resolve to the same reference.
C11_ReferenceDeterminism ==
    pair.phase = "loop" =>
        /\ (IsFirst(pair.ref_config) /\ PositionOf(pair.a[1]) = PositionOf(pair.b[1]))
              => pair.locA.ref = pair.refB
        /\ IsTriple(pair.ref_config) => pair.locA.ref = pair.refB

C11_Witness ==
    /\ pair.phase = "loop" /\ IsFirst(pair.ref_config)
    /\ Len(pair.a) = 2
    /\ pair.a[1] = pair.b[1] /\ pair.a[2] # pair.b[2]
    /\ pair.locA.ref = pair.refB /\ pair.refB = PositionOf(pair.b[1])

\* The reference the call's own stream and reference specification give.
OwnReference ==
    IF IsFirst(RefSpec) THEN StreamRow(1)
    ELSE <<RefSpec.d["lat"], RefSpec.d["lon"], RefSpec.d["alt"]>>

\* Row j of the call's own stream, as iterrows() yields it.
OwnRow(j) == [c \in Range(LLA_COLUMNS) |->
                CASE c = "pos_lat" -> StreamRow(j)[1]
                  [] c = "pos_lon" -> StreamRow(j)[2]
                  [] OTHER -> StreamRow(j)[3]]

\* convert_lla_to_ned returned what the call's own stream and reference
\* specification determine.
OwnResult ==
    (LlaReturned /\ HasStream) =>
        /\ loc.ref = OwnReference
        /\ \A j \in 1..input.n : NedRow(j) = RowNed(OwnRow(j), OwnReference).val

\* C12: in a process that calls convert() again and again, with calls that
\* succeed and calls that fail, nothing of a call outlives it: when a call
\* has ended no reference, list, frame or exception of it is left, and what
\* convert_lla_to_ned returns in any call is determined by that call's own
\* stream and reference specification.  (WGS84_A and WGS84_E2 are constants
\* of the module, which no step assigns.)
C12_NoStateAcrossCalls ==
    /\ [][pc' = "idle" =>
            (loc' = NoLocals /\ df' = EmptyFrame /\ input' = EmptyFrame /\ exc' = "none")]_vars
    /\ []OwnResult

\* A call in "first" mode has returned the NED stream of a stream of two
\* distinct points.
C12_Witness ==
    /\ LlaReturned /\ HasStream /\ IsFirst(RefSpec)
    /\ input.n = 2 /\ IsPoint(StreamRow(1)) /\ IsPoint(StreamRow(2))
    /\ StreamRow(1) # StreamRow(2)
    /\ loc.ref = StreamRow(1)
    /\ NedRow(2) # <<Zero, Zero, Zero>>

\* The target and the reference of an evaluation differ in one coordinate.
FnNedOf(k) == fn.ned[k].v
OnlyLatDiffers == fn.p[2] = fn.r[2] /\ fn.p[3] = fn.r[3]
OnlyLonDiffers == fn.p[1] = fn.r[1] /\ fn.p[3] = fn.r[3]
OnlyAltDiffers == fn.p[1] = fn.r[1] /\ fn.p[2] = fn.r[2]

\* C13, as the spec states it: a target at higher latitude has north > 0, a
\* target at higher longitude has east > 0, a target at lower altitude has
\* down > 0 and one at higher altitude has down < 0.
C13_SignConvention ==
    fn.phase = "ned" =>
        /\ (OnlyLatDiffers /\ fn.p[1].v > fn.r[1].v) => FnNedOf(1) > 0
        /\ (OnlyLonDiffers /\ fn.p[2].v > fn.r[2].v) => FnNedOf(2) > 0
        /\ (OnlyAltDiffers /\ fn.p[3].v < fn.r[3].v) => FnNedOf(3) > 0
        /\ (OnlyAltDiffers /\ fn.p[3].v > fn.r[3].v) => FnNedOf(3) < 0

\* C13, amended: the same, east > 0 holding for a target whose longitude is
\* higher than the reference's by less than pi radians (3.14 in the units of
\* the model); a target further east than that lies to the west.
C13_SignConventionWithinHalfTurn ==
    fn.phase = "ned" =>
        /\ (OnlyLatDiffers /\ fn.p[1].v > fn.r[1].v) => FnNedOf(1) > 0
        /\ (OnlyLonDiffers /\ fn.p[2].v > fn.r[2].v
                /\ fn.p[2].v - fn.r[2].v < 314) => FnNedOf(2) > 0
        /\ (OnlyAltDiffers /\ fn.p[3].v < fn.r[3].v) => FnNedOf(3) > 0
        /\ (OnlyAltDiffers /\ fn.p[3].v > fn.r[3].v) => FnNedOf(3) < 0

\* A target 0.10 rad east of the reference, at latitude 0.70 rad.
C13_Witness ==
    /\ fn.phase = "ned" /\ OnlyLonDiffers
    /\ fn.r[1] = Num(70) /\ fn.r[2] = Num(-122) /\ fn.p[2] = Num(-112)
    /\ FnNedOf(2) > 0

\* C14: at latitude 0 and longitude 0, lla_to_ecef(0, 0, h) is (a + h, 0, 0)
\* for every altitude h, a being WGS84_A; for h = 0 it is (a, 0, 0).
C14_EquatorPrimeMeridian ==
    (fn.phase \in {"ecef", "ned"} /\ fn.p[1] = Zero /\ fn.p[2] = Zero) =>
        fn.ecef = <<FAdd(WGS84_A, fn.p[3]), Zero, Zero>>

C14_Witness ==
    /\ fn.phase = "ecef" /\ fn.p = <<Zero, Zero, Metres(1000)>>
    /\ fn.ecef = <<Num((6378137 + 1000) * FloatUnit), Zero, Zero>>

\* C15: with the reference (0, 0, 0), a target (0, 0, h) converts to the NED
\* triple (0, 0, -h) for every altitude h.
C15_AltitudeAboveOrigin ==
    (fn.phase = "ned" /\ fn.r = <<Zero, Zero, Zero>>
        /\ fn.p[1] = Zero /\ fn.p[2] = Zero) =>
        fn.ned = <<Zero, Zero, FNeg(fn.p[3])>>

C15_Witness ==
    /\ fn.phase = "ned" /\ fn.r = <<Zero, Zero, Zero>>
    /\ fn.p = <<Zero, Zero, Metres(1000)>>
    /\ fn.ned = <<Zero, Zero, Metres(-1000)>>

(***************************************************************************)
(* Properties of the frames convert_lla_to_ned and convert() return.       *)
(***************************************************************************)
NED_COLUMNS == <<"pos_north", "pos_east", "pos_down">>

\* C16: a successful convert_lla_to_ned returns a frame without pos_lat,
\* pos_lon, pos_alt and with pos_north, pos_east, pos_down; every other
\* column of the frame it was given is kept, in place, with the same values
\* in the same rows.
C16_OtherColumnsKept ==
    (LlaReturned /\ HasStream) =>
        /\ Range(LLA_COLUMNS) \cap Range(df.cols) = {}
        /\ Range(NED_COLUMNS) \subseteq Range(df.cols)
        /\ df.n = input.n
        /\ df.cols = <<"yaw", "entity_type">> \o NED_COLUMNS
        /\ df.data["yaw"] = input.data["heading"]
        /\ df.data["entity_type"] = input.data["kind"]

C16_Witness ==
    /\ LlaReturned /\ HasStream /\ input.n = 3
    /\ df.data["yaw"] = <<Num(100), NaN, Num(200)>>
    /\ df.data["entity_type"][3] = Str("sensor")

\* The config does not ask for the geodetic transform / for radians.
NotLla == Get(config, "coordinate_system", "ned") # "lla"
NotRadians == Get(config, "angle_units", "degrees") # "radians"

\* The file's position columns are mapped to pos_north, pos_east, pos_down.
NedMapped == input.cols = SOURCE_COLUMNS /\ config.column_mapping = MappingOf("ned")

\* The default the config sets for a column, if any.
HasDefault(col) ==
    \E d \in 1..Len(Get(config, "defaults", <<>>)) : config.defaults[d][1] = col
DefaultOf(col) ==
    config.defaults[CHOOSE d \in 1..Len(config.defaults) : config.defaults[d][1] = col][2]

\* A cell after the defaults: a missing value becomes the column's default.
Defaulted(col, cell) ==
    IF cell.k = "nan" /\ HasDefault(col) THEN DefaultOf(col) ELSE cell

\* The row loop and the reference resolution are not entered.
NoTransformRun == pc # "loop" /\ loc = NoLocals /\ ~(pc = "lla" /\ exc # "none")

\* C17, as the spec states it: without coordinate_system "lla" no geodetic
\* transform runs and every pos_north, pos_east, pos_down value of the
\* output equals the mapped input value of the same row.
C17_NoConversionUnlessLla ==
    /\ NotLla => NoTransformRun
    /\ (pc = "done" /\ NotLla /\ NedMapped) =>
           \A j \in 1..input.n :
               /\ df.data["pos_north"][j] = input.data["c1"][j]
               /\ df.data["pos_east"][j] = input.data["c2"][j]
               /\ df.data["pos_down"][j] = input.data["c3"][j]

\* C17, amended: the same, except that a missing input value is replaced by
\* the default the config sets for its column.
C17_NoConversionUnlessLlaUpToDefaults ==
    /\ NotLla => NoTransformRun
    /\ (pc = "done" /\ NotLla /\ NedMapped) =>
           \A j \in 1..input.n :
               /\ df.data["pos_north"][j] = Defaulted("pos_north", input.data["c1"][j])
               /\ df.data["pos_east"][j] = Defaulted("pos_east", input.data["c2"][j])
               /\ df.data["pos_down"][j] = Defaulted("pos_down", input.data["c3"][j])

C17_Witness ==
    /\ pc = "done" /\ NedMapped /\ "coordinate_system" \notin config.keys
    /\ input.n = 2
    /\ input.data["c1"] = <<Num(70), NaN>>
    /\ HasDefault("pos_north") /\ ~HasDefault("pos_down")
    /\ df.data["pos_north"] = <<Num(70), Zero>>
    /\ df.data["pos_down"] = input.data["c3"]

\* The columns some stage of the call produced: the mapped columns of the
\* file, the NED columns in "lla" mode, the columns with a default, and the
\* three format_output sets.
Produced ==
    {config.column_mapping[c] : c \in Range(input.cols)}
      \cup (IF NotLla THEN {} ELSE Range(NED_COLUMNS))
      \cup {config.defaults[d][1] : d \in 1..Len(Get(config, "defaults", <<>>))}
      \cup {"entity_id", "entity_type", "platform_id"}

C19_PlatformEntity ==
    pc = "done" =>
        \A j \in 1..df.n :
            /\ df.data["entity_type"][j] = Str("platform")
            /\ df.data["platform_id"][j] = df.data["entity_id"][j]

C19_Witness ==
    /\ pc = "done" /\ input.n = 2
    /\ input.data["kind"] = <<Str("sensor"), Str("sensor")>>
    /\ config.column_mapping["kind"] = "platform_id"
    /\ df.data["platform_id"] = <<Str("p1"), Str("p1")>>

\* The yaw a heading becomes when angle_units is "radians".
InDegrees(cell) == IF cell.k = "nan" THEN cell ELSE Degrees(cell)

\* C20, as the spec states it: the heading, mapped to yaw, is converted to
\* degrees when angle_units is "radians"; otherwise every yaw of the output
\* equals the mapped input value.
C20_DegreesOnlyForRadians ==
    (pc = "done" /\ input.cols = SOURCE_COLUMNS) =>
        \A j \in 1..input.n :
            /\ (~NotRadians /\ input.data["heading"][j].k = "num")
                  => df.data["yaw"][j] = Degrees(input.data["heading"][j])
            /\ NotRadians => df.data["yaw"][j] = input.data["heading"][j]

\* C20, amended: the same, except that a missing input value is replaced by
\* the default the config sets for its column.
C20_DegreesOnlyForRadiansUpToDefaults ==
    (pc = "done" /\ input.cols = SOURCE_COLUMNS) =>
        \A j \in 1..input.n :
            /\ ~NotRadians
                  => df.data["yaw"][j] = Defaulted("yaw", InDegrees(input.data["heading"][j]))
            /\ NotRadians
                  => df.data["yaw"][j] = Defaulted("yaw", input.data["heading"][j])

C20_Witness ==
    /\ pc = "done" /\ input.cols = SOURCE_COLUMNS
    /\ config.angle_units = "degrees" /\ "angle_units" \in config.keys
    /\ input.data["heading"] = <<Num(100), NaN>>
    /\ HasDefault("yaw")
    /\ df.data["yaw"] = <<Num(100), Num(50)>>

\* The steps of convert() in the order of lines 404-437: from each position
\* of the call, the positions the next step may lead to.
StageOrder ==
    { <<"idle", "read">>, <<"read", "map">>, <<"map", "lla">>,
      <<"lla", "loop">>, <<"lla", "angles">>, <<"loop", "angles">>,
      <<"angles", "defaults">>, <<"defaults", "format">>,
      <<"format", "write">>, <<"write", "done">> }

\* C25: a call of convert() passes its stages in one order: read, column
\* mapping, the geodetic transform if any, angle conversion, defaults,
\* formatting, write.  The defaults come after the angle conversion, so in
\* the output a yaw that was missing in the file, and every roll (a column
\* the file lacks), holds the configured default as given, angle_units
\* "radians" included.
C25_DefaultsAfterAngles ==
    /\ [][pc' # pc => (pc' = "idle" \/ <<pc, pc'>> \in StageOrder)]_vars
    /\ [][(file'.written /\ ~file.written) => (pc = "write" /\ file'.frame = df)]_vars
    /\ []((pc = "done" /\ input.cols = SOURCE_COLUMNS) =>
             \A j \in 1..input.n :
                 /\ (input.data["heading"][j].k = "nan" /\ HasDefault("yaw"))
                       => df.data["yaw"][j] = DefaultOf("yaw")
                 /\ HasDefault("roll") => df.data["roll"][j] = DefaultOf("roll"))

\* angle_units "radians" with defaults: the heading 1.00 rad comes out as
\* 57.30 degrees, the missing heading as the default 0.50 and roll as 0.25.
C25_Witness ==
    /\ pc = "done" /\ input.cols = SOURCE_COLUMNS
    /\ ~NotRadians /\ HasDefault("yaw")
    /\ input.data["heading"] = <<Num(100), NaN>>
    /\ df.data["yaw"] = <<Num(5730), Num(50)>>
    /\ df.data["roll"] = <<Num(25), Num(25)>>

\* The frame convert_lla_to_ned was called on.
FrameIn == apply_column_mapping(input, config.column_mapping)

\* convert_lla_to_ned has not reached the assignments of lines 166-168: it
\* is resolving the reference or in the loop, or it has failed there.
BeforeAssignment ==
    \/ pc = "lla"
    \/ pc = "loop" /\ (exc = "none" \/ Len(loc.north_vals) < df.n)

\* C29: until the row loop of convert_lla_to_ned has completed, the frame
\* is the one the function was called on; it is so in particular when the
\* reference resolution or a row has failed.  The frame changes inside
\* convert_lla_to_ned only once every row has its NED triple.
C29_FrameUntouchedOnFailure ==
    /\ [](BeforeAssignment => df = FrameIn)
    /\ [][(pc = "loop" /\ pc' # "idle" /\ df' # df) =>
             (i > df.n /\ Len(loc.north_vals) = df.n /\ exc = "none")]_vars

\* The second of three rows has failed: one NED triple is in the lists and
\* the frame still has its LLA columns and no NED column.
C29_Witness ==
    /\ pc = "loop" /\ exc # "none"
    /\ df.n = 3 /\ i = 3
    /\ Len(loc.north_vals) = 1
    /\ df = FrameIn
    /\ HasCol(df, "pos_lat") /\ ~HasCol(df, "pos_north")

\* The reference resolution has failed on a frame with rows.
C29_WitnessReference ==
    /\ pc = "lla" /\ exc # "none" /\ df.n = 2
    /\ df = FrameIn

(***************************************************************************)
(* parse_timestamp.  A timestamp series is a sequence of cells: numbers    *)
(* (a value in thousands: v = 1700000 is 1.7e9), datetime64 instants,      *)
(* str, and NaN for a missing cell.  Instants are kept in thousands of     *)
(* seconds since the epoch; Iso(t) is the str strftime makes of instant t. *)
(***************************************************************************)
Ticks(v) == [k |-> "num", v |-> v, s |-> ""]
Dt(t) == [k |-> "dt", v |-> t, s |-> ""]
Iso(t) == [k |-> "iso", v |-> t, s |-> ""]

\* Line 277: 1e12, in thousands.
MS_THRESHOLD == 1000000000

\* pd.to_datetime: the last instant a Timestamp holds is 9223372036 s after
\* the epoch (and the first as long before it); in thousands of seconds.
TS_MAX == 9223372

\* pd.to_datetime(text, utc=True) of one str: the instant it names, or an
\* error for a text that is no date.
DATE_TEXT == "2023-12-31T23:56:40Z"
ParseDate(text) ==
    IF text = DATE_TEXT THEN Returned(1704067) ELSE Raised("ValueError")

\* ts_series.dropna()
DropNa(ts) == SelectSeq(ts, LAMBDA c : c.k # "nan")

\* pd.api.types.is_datetime64_any_dtype
IsDatetimeDtype(ts) == \A j \in 1..Len(ts) : ts[j].k \in {"dt", "nan"}

\* pd.to_datetime(ts_series, unit=unit, utc=True) of one number, as an
\* instant: a value in seconds is the instant; 1000 ms are one second.
InstantOf(v, unit) == IF unit = "ms" THEN v \div 1000 ELSE v

\* .dt.strftime(...): a missing instant stays missing.
Formatted(ts, unit) ==
    [j \in 1..Len(ts) |->
        IF ts[j].k = "nan" THEN NaN ELSE Iso(InstantOf(ts[j].v, unit))]

\* Lines 275-281 for a series of the unit given.
NumericTimestamps(ts, unit) ==
    IF \E j \in 1..Len(ts) : ts[j].k = "num" /\ Abs(InstantOf(ts[j].v, unit)) > TS_MAX
    THEN Raised("OutOfBoundsDatetime")
    ELSE Returned(Formatted(ts, unit))

\* Lines 284-289: a series of str.
TextTimestamps(ts) ==
    IF \E j \in 1..Len(ts) : ts[j].k = "str" /\ ParseDate(ts[j].s).exc # "none"
    THEN Returned(ts)
    ELSE Returned([j \in 1..Len(ts) |->
                     IF ts[j].k = "nan" THEN NaN ELSE Iso(ParseDate(ts[j].s).val)])

\* Mutant: the unit is decided for each cell from its own value.
parse_timestamp_UnitPerCell(ts_series) ==
    IF Len(DropNa(ts_series)) = 0 THEN Returned(ts_series)
    ELSE IF IsDatetimeDtype(ts_series) THEN Returned(Formatted(ts_series, "s"))
    ELSE IF IsNumericDtype(ts_series)
         THEN Returned([j \in 1..Len(ts_series) |->
                          IF ts_series[j].k = "nan" THEN NaN
                          ELSE Iso(InstantOf(ts_series[j].v,
                                             IF ts_series[j].v > MS_THRESHOLD
                                             THEN "ms" ELSE "s"))])
         ELSE TextTimestamps(ts_series)

parse_timestamp(ts_series) ==
    IF Len(DropNa(ts_series)) = 0 THEN Returned(ts_series)
    ELSE IF IsDatetimeDtype(ts_series) THEN Returned(Formatted(ts_series, "s"))
    ELSE IF IsNumericDtype(ts_series)
         THEN NumericTimestamps(ts_series,
                                IF DropNa(ts_series)[1].v > MS_THRESHOLD
                                THEN "ms" ELSE "s")
         ELSE TextTimestamps(ts_series)

(***************************************************************************)
(* parse_json_column_mapping.  A key of a JSON object is a str, modelled   *)
(* as the sequence of its tokens: "[", "]", ",", a quoted string, or a     *)
(* bare word that is no JSON value.                                        *)
(***************************************************************************)
LB == [t |-> "[", s |-> ""]
RB == [t |-> "]", s |-> ""]
COMMA == [t |-> ",", s |-> ""]
Quoted(name) == [t |-> "str", s |-> name]
Word(name) == [t |-> "word", s |-> name]

TokenText(tok) == IF tok.t = "str" THEN "\"" \o tok.s \o "\""
                  ELSE IF tok.t = "word" THEN tok.s ELSE tok.t

\* The str the tokens spell.
RECURSIVE KeyText(_)
KeyText(tokens) ==
    IF tokens = <<>> THEN "" ELSE TokenText(Head(tokens)) \o KeyText(Tail(tokens))

\* json.loads: the position after the JSON value that starts at token `at`,
\* or 0 if none starts there.  A value is a quoted string or an array of
\* values.
RECURSIVE ValueEnd(_, _)
RECURSIVE ElementsEnd(_, _)
ValueEnd(tokens, at) ==
    IF at > Len(tokens) THEN 0
    ELSE IF tokens[at].t = "str" THEN at + 1
    ELSE IF tokens[at].t = "["
         THEN IF at + 1 <= Len(tokens) /\ tokens[at + 1].t = "]" THEN at + 2
              ELSE ElementsEnd(tokens, at + 1)
         ELSE 0

ElementsEnd(tokens, at) ==
    IF ValueEnd(tokens, at) = 0 \/ ValueEnd(tokens, at) > Len(tokens) THEN 0
    ELSE IF tokens[ValueEnd(tokens, at)].t = "]" THEN ValueEnd(tokens, at) + 1
    ELSE IF tokens[ValueEnd(tokens, at)].t = ","
         THEN ElementsEnd(tokens, ValueEnd(tokens, at) + 1)
         ELSE 0

\* json.loads(key) returns: the whole key is one JSON value.
JsonLoads(tokens) == ValueEnd(tokens, 1) = Len(tokens) + 1

\* key.startswith("[") and key.endswith("]")
Bracketed(tokens) ==
    Len(tokens) > 0 /\ tokens[1].t = "[" /\ tokens[Len(tokens)].t = "]"

\* The elements of the array, if they are all strings.
Elements(tokens) ==
    LET strs == SelectSeq(tokens, LAMBDA tok : tok.t = "str")
    IN  [j \in 1..Len(strs) |-> strs[j].s]

\* tuple(json.loads(key)) as a dict key: a tuple that holds a list cannot
\* be hashed, and parsed[parsed_key] = value raises TypeError.
Hashable(tokens) == \A j \in 2..Len(tokens) : tokens[j].t # "["

\* Lines 465-472 for one key.
\* Mutant: every key is kept as the str it is.
ParseKey_KeepText(key) == Returned(PyKeyStr(KeyText(key)))

ParseKey(key) ==
    IF Bracketed(key) /\ JsonLoads(key)
    THEN IF Hashable(key) THEN Returned(PyKeyTuple(Elements(key)))
         ELSE Raised("TypeError")
    ELSE Returned(PyKeyStr(KeyText(key)))

\* mapping.items() as a sequence of <<key, value>>.
parse_json_column_mapping(mapping) ==
    IF \E j \in 1..Len(mapping) : ParseKey(mapping[j][1]).exc # "none"
    THEN Raised("TypeError")
    ELSE Returned([j \in 1..Len(mapping) |->
                     <<ParseKey(mapping[j][1]).val, mapping[j][2]>>])

(***************************************************************************)
(* SpecCall: one call of one function of the module on its own.  The       *)
(* function and its arguments are drawn in the initial state; the one      *)
(* action of the function applies it and records what it returns.          *)
(***************************************************************************)
\* The longest frame a single function is called on.
MaxCallRows == 2

\* A column of a drawn frame: absent, or present with its cells.
OptColumn(n, cells) ==
    {[has |-> FALSE, vals |-> <<>>]} \cup {[has |-> TRUE, vals |-> v] : v \in [1..n -> cells]}

AddIf(frame, c, o) == IF o.has THEN SetCol(frame, c, o.vals) ELSE frame

\* Frames of n rows: an angle column "yaw" (a float, missing, or a str), a
\* float column "pos_north", a str column "id" and a column whose label is
\* the tuple ("Position", "North"); each of them may be absent.
CallFrames(n) ==
    { AddIf(AddIf(AddIf(AddIf([n |-> n, cols |-> <<>>, data |-> [c \in {} |-> <<>>]],
                              "yaw", y), "pos_north", p), "id", d),
            TupleLabel(<<"Position", "North">>), t) :
        y \in OptColumn(n, {Num(100), NaN, Str("N")}),
        p \in OptColumn(n, {Num(7000), NaN}),
        d \in OptColumn(n, {Str("a"), Str("b")}),
        t \in OptColumn(n, {Num(500)}) }

AllCallFrames == UNION {CallFrames(n) : n \in 0..MaxCallRows}

CallOf(op, frame, arg) == [phase |-> "args", op |-> op, df |-> frame, arg |-> arg, out |-> <<>>]

\* The defaults dicts apply_defaults is called with: none, one that names
\* an absent column, two float columns of the frames and no other, and one
\* that names the str column.
CallDefaults ==
    { <<>>,
      <<<<"roll", Zero>>, <<"yaw", Num(50)>>, <<"pos_north", Zero>>>>,
      <<<<"id", Str("x")>>>> }

\* The column mappings apply_column_mapping is called with: none; a str key
\* and a tuple key; a key that no frame holds next to one that frames hold;
\* two keys that swap the names of two columns.
CallMappings ==
    { <<>>,
      <<<<PyKeyStr("id"), "entity_name">>,
        <<PyKeyTuple(<<"Position", "North">>), "pos_east">>>>,
      <<<<PyKeyStr("heading"), "roll">>, <<PyKeyStr("yaw"), "pitch">>>>,
      <<<<PyKeyStr("yaw"), "id">>, <<PyKeyStr("id"), "yaw">>>> }

\* The entity_id configs format_output is called with: {}, {"column": "id"},
\* {"column": "id", "fixed": "f1"} and {"fixed": "f1"}; "id" is a column of
\* some frames and not of others.
EntityConfigs ==
    { [keys |-> {}, column |-> "", fixed |-> ""],
      [keys |-> {"column"}, column |-> "id", fixed |-> ""],
      [keys |-> {"column", "fixed"}, column |-> "id", fixed |-> "f1"],
      [keys |-> {"fixed"}, column |-> "", fixed |-> "f1"] }

\* The longest timestamp series.
MaxSeries == 3

\* Timestamp series: numbers (1.7e9, 1.7e12 and 1e12 itself), or str (a
\* date and a text that is no date), or datetime64 instants, each with
\* missing cells.
TimestampSeries ==
    UNION { [1..n -> {Ticks(1700000), Ticks(1700000000), Ticks(MS_THRESHOLD), NaN}]
              \cup [1..n -> {Str(DATE_TEXT), Str("yesterday"), NaN}]
              \cup [1..n -> {Dt(1704067), NaN}] : n \in 0..MaxSeries }

\* The longest key of a JSON column mapping, in tokens.
MaxKeyTokens == 5

JsonTokens == {LB, RB, COMMA, Quoted("Position"), Quoted("North"), Word("time")}

\* JSON column mappings: a key of up to MaxKeyTokens tokens, mapped to
\* pos_north, and the key "altitude" mapped to pos_down.
JsonMappings ==
    { <<<<key, "pos_north">>, <<<<Word("altitude")>>, "pos_down">>>> :
        key \in UNION {[1..n -> JsonTokens] : n \in 0..MaxKeyTokens} }

CallInit ==
    /\ ConvertIdle
    /\ fn = NoFn
    /\ pair = NoPair
    /\ cli = NoCli
    /\ \/ \E frame \in AllCallFrames : call = CallOf("angles", frame, <<>>)
       \/ \E frame \in AllCallFrames, defaults \in CallDefaults :
              call = CallOf("defaults", frame, defaults)
       \/ \E frame \in AllCallFrames, mapping \in CallMappings :
              call = CallOf("mapping", frame, mapping)
       \/ \E frame \in AllCallFrames, entity_id_config \in EntityConfigs :
              call = CallOf("format", frame, entity_id_config)
       \/ \E ts_series \in TimestampSeries :
              call = CallOf("timestamp", EmptyFrame, ts_series)
       \/ \E mapping \in JsonMappings :
              call = CallOf("json", EmptyFrame, mapping)

\* convert_angles_to_degrees(df)
CallAngles ==
    /\ call.phase = "args"
    /\ call.op = "angles"
    /\ call' = [call EXCEPT !.phase = "done", !.out = convert_angles_to_degrees(call.df)]
    /\ UNCHANGED <<convertVars, fn, pair, cli>>

\* apply_defaults(df, defaults)
CallDefaultsFn ==
    /\ call.phase = "args"
    /\ call.op = "defaults"
    /\ call' = [call EXCEPT !.phase = "done", !.out = apply_defaults(call.df, call.arg)]
    /\ UNCHANGED <<convertVars, fn, pair, cli>>

\* apply_column_mapping(df, mapping)
CallMapping ==
    /\ call.phase = "args"
    /\ call.op = "mapping"
    /\ call' = [call EXCEPT !.phase = "done",
                            !.out = apply_column_mapping(call.df, MappingFrom(call.arg))]
    /\ UNCHANGED <<convertVars, fn, pair, cli>>

\* format_output(df, entity_id_config)
CallFormat ==
    /\ call.phase = "args"
    /\ call.op = "format"
    /\ call' = [call EXCEPT !.phase = "done", !.out = format_output(call.df, call.arg)]
    /\ UNCHANGED <<convertVars, fn, pair, cli>>

\* parse_timestamp(ts_series)
CallTimestamp ==
    /\ call.phase = "args"
    /\ call.op = "timestamp"
    /\ call' = [call EXCEPT !.phase = "done", !.out = parse_timestamp(call.arg)]
    /\ UNCHANGED <<convertVars, fn, pair, cli>>

\* parse_json_column_mapping(mapping)
CallParseJson ==
    /\ call.phase = "args"
    /\ call.op = "json"
    /\ call' = [call EXCEPT !.phase = "done", !.out = parse_json_column_mapping(call.arg)]
    /\ UNCHANGED <<convertVars, fn, pair, cli>>

CallNext ==
    \/ CallAngles
    \/ CallDefaultsFn
    \/ CallMapping
    \/ CallFormat
    \/ CallTimestamp
    \/ CallParseJson

SpecCall == CallInit /\ [][CallNext]_vars

CallDone(op) == call.phase = "done" /\ call.op = op

\* C21: convert_angles_to_degrees changes a cell only if it lies in one of
\* the six angle columns, that column is numeric and the cell is not
\* missing, and then the cell becomes its value in degrees; every other
\* cell, the column labels and their order stay, and no column is created.
C21_AnglesOnlyNumericAngleCells ==
    CallDone("angles") =>
        /\ call.out.n = call.df.n
        /\ call.out.cols = call.df.cols
        /\ \A c \in Range(call.df.cols) : \A j \in 1..call.df.n :
               call.out.data[c][j] =
                   IF /\ c \in Range(ANGLE_COLUMNS)
                      /\ \A r \in 1..call.df.n : call.df.data[c][r].k # "str"
                      /\ call.df.data[c][j].k # "nan"
                   THEN Degrees(call.df.data[c][j])
                   ELSE call.df.data[c][j]

\* A frame with a numeric yaw column holding 1.00 rad and a missing cell,
\* and a numeric non-angle column: 1.00 became 57.30 and nothing else moved.
C21_Witness ==
    /\ CallDone("angles")
    /\ call.df.n = 2
    /\ call.df.cols = <<"yaw", "pos_north">>
    /\ call.df.data["yaw"] = <<Num(100), NaN>>
    /\ call.df.data["pos_north"] = <<Num(7000), Num(7000)>>
    /\ call.out.data["yaw"] = <<Num(5730), NaN>>
    /\ call.out.data["pos_north"] = <<Num(7000), Num(7000)>>

\* A yaw column with a str cell is an object column and is returned as is.
C21_WitnessObjectColumn ==
    /\ CallDone("angles")
    /\ call.df.n = 2
    /\ HasCol(call.df, "yaw")
    /\ call.df.data["yaw"] = <<Num(100), Str("N")>>
    /\ call.out = call.df

\* The default the dict of the call holds for column c.
CallDefaultOf(c) ==
    call.arg[CHOOSE j \in 1..Len(call.arg) : call.arg[j][1] = c][2]

CallNamed == {call.arg[j][1] : j \in 1..Len(call.arg)}

\* C26: apply_defaults keeps the rows and the columns of the frame, appends
\* each named column the frame lacks with the default in every row, puts
\* the default into the missing cells of a named column the frame has, and
\* leaves every other cell as it was.
C26_DefaultsFillOnlyMissing ==
    CallDone("defaults") =>
        /\ call.out.n = call.df.n
        /\ call.out.cols =
             call.df.cols \o
             SelectSeq([j \in 1..Len(call.arg) |-> call.arg[j][1]],
                       LAMBDA c : ~HasCol(call.df, c))
        /\ \A c \in Range(call.out.cols) : \A j \in 1..call.df.n :
               call.out.data[c][j] =
                   IF ~HasCol(call.df, c) THEN CallDefaultOf(c)
                   ELSE IF c \in CallNamed /\ call.df.data[c][j].k = "nan"
                        THEN CallDefaultOf(c)
                        ELSE call.df.data[c][j]

\* Defaults for roll, yaw and pos_north on a frame without roll whose yaw
\* is missing in the first row only: roll is created, the missing yaw is
\* filled, the other yaw and the unnamed id column stay.
C26_Witness ==
    /\ CallDone("defaults")
    /\ call.arg = <<<<"roll", Zero>>, <<"yaw", Num(50)>>, <<"pos_north", Zero>>>>
    /\ call.df.cols = <<"yaw", "id">>
    /\ call.df.data["yaw"] = <<NaN, Num(100)>>
    /\ call.df.data["id"] = <<Str("a"), Str("b")>>
    /\ call.out.cols = <<"yaw", "id", "roll", "pos_north">>
    /\ call.out.data["yaw"] = <<Num(50), Num(100)>>
    /\ call.out.data["roll"] = <<Zero, Zero>>
    /\ call.out.data["id"] = <<Str("a"), Str("b")>>

\* The name column c has after the mapping of the call.
CallTarget(c) ==
    IF \E j \in 1..Len(call.arg) : LabelOf(call.arg[j][1]) = c
    THEN call.arg[CHOOSE j \in 1..Len(call.arg) : LabelOf(call.arg[j][1]) = c][2]
    ELSE c

\* C28: apply_column_mapping renames exactly the columns whose label is a
\* key of the mapping (a tuple key naming the tuple label); a key the frame
\* lacks adds nothing, the other columns keep their names, and the columns
\* keep their places, their cells and their rows.
C28_RenameOnlyMappedPresent ==
    CallDone("mapping") =>
        /\ call.out.n = call.df.n
        /\ Len(call.out.cols) = Len(call.df.cols)
        /\ \A k \in 1..Len(call.df.cols) :
               /\ call.out.cols[k] = CallTarget(call.df.cols[k])
               /\ call.out.data[call.out.cols[k]] = call.df.data[call.df.cols[k]]

\* A frame with yaw, id and the ("Position", "North") column under a
\* mapping of "id" and of the tuple: two columns are renamed, yaw is not.
C28_Witness ==
    /\ CallDone("mapping")
    /\ call.arg = <<<<PyKeyStr("id"), "entity_name">>,
                    <<PyKeyTuple(<<"Position", "North">>), "pos_east">>>>
    /\ call.df.n = 2
    /\ call.df.cols = <<"yaw", "id", "('Position', 'North')">>
    /\ call.out.cols = <<"yaw", "entity_name", "pos_east">>
    /\ call.out.data["pos_east"] = <<Num(500), Num(500)>>

\* A mapping with a key "heading" that the frame lacks: nothing is added.
C28_WitnessAbsentSource ==
    /\ CallDone("mapping")
    /\ call.arg = <<<<PyKeyStr("heading"), "roll">>, <<PyKeyStr("yaw"), "pitch">>>>
    /\ call.df.cols = <<"yaw", "pos_north">>
    /\ call.out.cols = <<"pitch", "pos_north">>

\* C24: the entity_id of every output row is the value of the configured
\* column in that row when the config has "column" and the frame has that
\* column, "p1" when the config has "column" and the frame lacks the
\* column (a "fixed" value given as well is not used), else the "fixed"
\* value when the config has one, else "p1".
C24_EntityIdResolution ==
    CallDone("format") =>
        /\ call.out.n = call.df.n
        /\ \A j \in 1..call.df.n :
               call.out.data["entity_id"][j] =
                   IF "column" \in call.arg.keys
                   THEN IF HasCol(call.df, call.arg.column)
                        THEN call.df.data[call.arg.column][j]
                        ELSE Str("p1")
                   ELSE IF "fixed" \in call.arg.keys
                        THEN Str(call.arg.fixed)
                        ELSE Str("p1")

\* {"column": "id", "fixed": "f1"} on a two-row frame without an id column:
\* both rows get "p1".
C24_Witness ==
    /\ CallDone("format")
    /\ call.arg.keys = {"column", "fixed"}
    /\ call.df.n = 2
    /\ ~HasCol(call.df, "id")
    /\ call.out.data["entity_id"] = <<Str("p1"), Str("p1")>>

\* {"column": "id"} on a frame whose id column holds "a" and "b".
C24_WitnessColumn ==
    /\ CallDone("format")
    /\ call.arg.keys = {"column"}
    /\ HasCol(call.df, "id")
    /\ call.df.data["id"] = <<Str("a"), Str("b")>>
    /\ call.out.data["entity_id"] = <<Str("a"), Str("b")>>

\* The first non-missing value of the series of the call.
FirstValue ==
    call.arg[CHOOSE j \in 1..Len(call.arg) :
                 /\ call.arg[j].k # "nan"
                 /\ \A m \in 1..(j - 1) : call.arg[m].k = "nan"].v

AllMissing == \A j \in 1..Len(call.arg) : call.arg[j].k = "nan"

\* C30: a series without a non-missing value is returned as it is; in a
\* numeric series that parse_timestamp returns, every value is read in one
\* unit, milliseconds if the first non-missing value exceeds 1e12 and
\* seconds if not; a series of str holding a text that is no date is
\* returned as it is, without an error.
C30_UnitFromFirstValue ==
    CallDone("timestamp") =>
        /\ AllMissing => call.out = Returned(call.arg)
        /\ (/\ ~AllMissing
            /\ \A j \in 1..Len(call.arg) : call.arg[j].k \in {"num", "nan"}
            /\ call.out.exc = "none")
           => \A j \in 1..Len(call.arg) :
                 call.out.val[j] =
                     IF call.arg[j].k = "nan" THEN NaN
                     ELSE IF FirstValue > MS_THRESHOLD
                          THEN Iso(call.arg[j].v \div 1000)
                          ELSE Iso(call.arg[j].v)
        /\ (\E j \in 1..Len(call.arg) : call.arg[j] = Str("yesterday"))
           => call.out = Returned(call.arg)

\* A series 1.7e12, missing, 1.7e9 is read in milliseconds as a whole: the
\* last value, a plausible count of seconds, comes out as 1.7e6 s.
C30_Witness ==
    /\ CallDone("timestamp")
    /\ call.arg = <<Ticks(1700000000), NaN, Ticks(1700000)>>
    /\ call.out = Returned(<<Iso(1700000), NaN, Iso(1700)>>)

\* A series of a date and a text that is no date comes back unchanged.
C30_WitnessText ==
    /\ CallDone("timestamp")
    /\ call.arg = <<Str(DATE_TEXT), Str("yesterday")>>
    /\ call.out = Returned(call.arg)

\* The first key of the JSON mapping of the call.
JsonKey == call.arg[1][1]

\* The key is "[", "]" around quoted strings separated by commas.
ArrayOfStrings ==
    /\ Bracketed(JsonKey)
    /\ Len(JsonKey) \in {2, 3, 5}
    /\ \A j \in 2..(Len(JsonKey) - 1) :
           JsonKey[j].t = IF j % 2 = 0 THEN "str" ELSE ","

\* The key has no "[" after its first token.
NoInnerArray == \A j \in 2..Len(JsonKey) : JsonKey[j].t # "["

C23_WitnessInvalidJson ==
    /\ CallDone("json")
    /\ JsonKey = <<LB, Word("time"), RB>>
    /\ call.out.val[1][1] = PyKeyStr("[time]")

(***************************************************************************)
(* SpecCli: one run of main().  A str given on the command line is the     *)
(* sequence of its pieces: the separators "," and ":" and the words        *)
(* between them.  An optional argument is [given, text]: args.x is None    *)
(* when it is not given.                                                   *)
(***************************************************************************)
NoneArg == [given |-> FALSE, text |-> <<>>]
Arg(text) == [given |-> TRUE, text |-> text]

\* `if args.x:`: the argument is given and is not the empty str.
Truthy(o) == o.given /\ o.text # <<>>

\* The str the pieces spell.
RECURSIVE TextOf(_)
TextOf(text) == IF text = <<>> THEN "" ELSE Head(text) \o TextOf(Tail(text))

\* The place of the first `sep` in the text, 0 if there is none.
IndexOf(text, sep) ==
    IF \E j \in 1..Len(text) : text[j] = sep
    THEN CHOOSE j \in 1..Len(text) :
             text[j] = sep /\ \A m \in 1..(j - 1) : text[m] # sep
    ELSE 0

\* text.split(sep)
RECURSIVE Split(_, _)
Split(text, sep) ==
    IF IndexOf(text, sep) = 0 THEN <<text>>
    ELSE <<SubSeq(text, 1, IndexOf(text, sep) - 1)>>
           \o Split(SubSeq(text, IndexOf(text, sep) + 1, Len(text)), sep)

\* float(s): the words that spell a number, and their values.
NumberTexts == {"0.5", "100"}
FloatOf(word) == IF word = "0.5" THEN Num(50) ELSE Num(100 * FloatUnit)
IsNumberText(text) == Len(text) = 1 /\ text[1] \in NumberTexts

\* dict[key] = value on a dict kept as a sequence of <<key, value>>.
DictPut(items, key, value) ==
    IF \E j \in 1..Len(items) : items[j][1] = key
    THEN [j \in 1..Len(items) |-> IF items[j][1] = key THEN <<key, value>> ELSE items[j]]
    ELSE Append(items, <<key, value>>)

\* parse_mapping_string, lines 440-447.
RECURSIVE MappingPairs(_, _)
MappingPairs(pairs, mapping) ==
    IF pairs = <<>> THEN mapping
    ELSE IF IndexOf(Head(pairs), ":") = 0 THEN MappingPairs(Tail(pairs), mapping)
    ELSE MappingPairs(
           Tail(pairs),
           DictPut(mapping,
                   PyKeyStr(TextOf(SubSeq(Head(pairs), 1, IndexOf(Head(pairs), ":") - 1))),
                   TextOf(SubSeq(Head(pairs), IndexOf(Head(pairs), ":") + 1,
                                 Len(Head(pairs))))))

parse_mapping_string(mapping_str) == MappingPairs(Split(mapping_str, ","), <<>>)

\* Lines 580-587: the defaults of -d, a number where float() takes the
\* value and the str otherwise.
RECURSIVE DefaultPairs(_, _)
DefaultPairs(pairs, defaults) ==
    IF pairs = <<>> THEN defaults
    ELSE IF IndexOf(Head(pairs), ":") = 0 THEN DefaultPairs(Tail(pairs), defaults)
    ELSE DefaultPairs(
           Tail(pairs),
           DictPut(defaults,
                   TextOf(SubSeq(Head(pairs), 1, IndexOf(Head(pairs), ":") - 1)),
                   IF IsNumberText(SubSeq(Head(pairs), IndexOf(Head(pairs), ":") + 1,
                                          Len(Head(pairs))))
                   THEN FloatOf(Head(pairs)[Len(Head(pairs))])
                   ELSE Str(TextOf(SubSeq(Head(pairs), IndexOf(Head(pairs), ":") + 1,
                                          Len(Head(pairs)))))))

\* A config dict: the set of its keys and a value for each key; a key the
\* dict lacks holds the value it has in EmptyConfig.
EmptyConfig ==
    [keys |-> {}, column_mapping |-> <<>>,
     entity_id |-> [keys |-> {}, column |-> "", fixed |-> ""],
     defaults |-> <<>>, header_rows |-> 1, coordinate_system |-> "",
     lla_reference |-> PyStr(""), angle_units |-> ""]

\* config[key] = value
Put(cfg, key, value) == [cfg EXCEPT !.keys = @ \cup {key}, ![key] = value]

\* Lines 571-572.
WithMapping(cfg, args) ==
    IF Truthy(args.mapping)
    THEN Put(cfg, "column_mapping", parse_mapping_string(args.mapping.text))
    ELSE cfg

\* Lines 574-577.
\* Mutant: --entity-id-fixed is looked at first.
WithEntityId_FixedFirst(cfg, args) ==
    IF Truthy(args.entity_id_fixed)
    THEN Put(cfg, "entity_id",
             [keys |-> {"fixed"}, column |-> "", fixed |-> TextOf(args.entity_id_fixed.text)])
    ELSE IF Truthy(args.entity_id_column)
    THEN Put(cfg, "entity_id",
             [keys |-> {"column"}, column |-> TextOf(args.entity_id_column.text), fixed |-> ""])
    ELSE cfg

WithEntityId(cfg, args) ==
    IF Truthy(args.entity_id_column)
    THEN Put(cfg, "entity_id",
             [keys |-> {"column"}, column |-> TextOf(args.entity_id_column.text), fixed |-> ""])
    ELSE IF Truthy(args.entity_id_fixed)
    THEN Put(cfg, "entity_id",
             [keys |-> {"fixed"}, column |-> "", fixed |-> TextOf(args.entity_id_fixed.text)])
    ELSE cfg

\* Lines 579-588.
WithDefaults(cfg, args) ==
    IF Truthy(args.defaults)
    THEN Put(cfg, "defaults", DefaultPairs(Split(args.defaults.text, ","), <<>>))
    ELSE cfg

\* Lines 590-591.
WithHeaderRows(cfg, args) ==
    IF args.double_header THEN Put(cfg, "header_rows", 2) ELSE cfg

\* parser.error(message): the message on stderr, exit status 2.
LLA_REFERENCE_MESSAGE == "--lla-reference must be 'first' or 'lat,lon,alt'"

\* Lines 593-605: the config, or how the run ends.
WithLlaReference(cfg, args) ==
    IF ~Truthy(args.lla_reference) THEN [end |-> "none", config |-> cfg]
    ELSE IF args.lla_reference.text = <<"first">>
    THEN [end |-> "none",
          config |-> Put(Put(cfg, "coordinate_system", "lla"), "lla_reference", PyStr("first"))]
    ELSE IF Len(Split(args.lla_reference.text, ",")) # 3
    THEN [end |-> "parser.error", config |-> Put(cfg, "coordinate_system", "lla")]
    ELSE IF \E k \in 1..3 : ~IsNumberText(Split(args.lla_reference.text, ",")[k])
    THEN [end |-> "ValueError", config |-> Put(cfg, "coordinate_system", "lla")]
    ELSE [end |-> "none",
          config |->
            Put(Put(cfg, "coordinate_system", "lla"), "lla_reference",
                PyDict([key \in {"lat", "lon", "alt"} |->
                          FloatOf(Split(args.lla_reference.text, ",")
                                    [IF key = "lat" THEN 1 ELSE IF key = "lon" THEN 2 ELSE 3][1])]))]

\* Lines 607-608.
WithAngleUnits(cfg, args) ==
    IF args.angles_in_radians THEN Put(cfg, "angle_units", "radians") ELSE cfg

\* The config a file holds: every key, with coordinate_system "ned"; its
\* column mapping has a tuple key, written in a JSON file as an array.
FILE_MAPPING ==
    <<<<PyKeyTuple(<<"Position", "North">>), "pos_north">>,
      <<PyKeyStr("altitude"), "pos_down">>>>

FILE_MAPPING_JSON ==
    <<<<<<LB, Quoted("Position"), COMMA, Quoted("North"), RB>>, "pos_north">>,
      <<<<Word("altitude")>>, "pos_down">>>>

FileConfig(column_mapping) ==
    [keys |-> {"column_mapping", "entity_id", "defaults", "header_rows",
               "coordinate_system", "lla_reference", "angle_units"},
     column_mapping |-> column_mapping,
     entity_id |-> [keys |-> {"fixed"}, column |-> "", fixed |-> "file_id"],
     defaults |-> <<<<"pitch", Zero>>>>,
     header_rows |-> 1,
     coordinate_system |-> "ned",
     lla_reference |-> PyDict([key \in {"lat", "lon", "alt"} |-> Zero]),
     angle_units |-> "degrees"]

\* -c: no config file, a Python file with {} or with the full config, or a
\* JSON file with the full config.
ConfigFiles ==
    { [kind |-> "none", content |-> EmptyConfig],
      [kind |-> "py", content |-> EmptyConfig],
      [kind |-> "py", content |-> FileConfig(FILE_MAPPING)],
      [kind |-> "json", content |-> FileConfig(FILE_MAPPING_JSON)] }

\* The longest --lla-reference value, in pieces.
MaxRefPieces == 5

RefPieces == {"first", "0.5", "north", ","}

RefTexts == UNION {[1..n -> RefPieces] : n \in 0..MaxRefPieces}

ArgsOf(mapping, entity_id_column, entity_id_fixed, defaults, double_header,
       lla_reference, angles_in_radians) ==
    [mapping |-> mapping, entity_id_column |-> entity_id_column,
     entity_id_fixed |-> entity_id_fixed, defaults |-> defaults,
     double_header |-> double_header, lla_reference |-> lla_reference,
     angles_in_radians |-> angles_in_radians]

\* Command lines: every combination of the other arguments (absent, empty
\* or with a value) with a few --lla-reference values, and every
\* --lla-reference value of up to MaxRefPieces pieces with no other
\* argument.
CommandLines ==
    { ArgsOf(m, c, f, d, h, r, a) :
        m \in {NoneArg, Arg(<<>>), Arg(<<"time", ":", "timestamp", ",", "north">>)},
        c \in {NoneArg, Arg(<<>>), Arg(<<"track">>)},
        f \in {NoneArg, Arg(<<>>), Arg(<<"unit7">>)},
        d \in {NoneArg, Arg(<<>>), Arg(<<"roll", ":", "0.5", ",", "mode", ":", "auto">>)},
        h \in BOOLEAN,
        r \in {NoneArg, Arg(<<>>), Arg(<<"first">>), Arg(<<"north">>),
               Arg(<<"0.5", ",", "0.5", ",", "100">>)},
        a \in BOOLEAN }
      \cup { ArgsOf(NoneArg, NoneArg, NoneArg, NoneArg, FALSE, Arg(r), FALSE) :
               r \in RefTexts }

CliInit ==
    /\ ConvertIdle
    /\ fn = NoFn
    /\ pair = NoPair
    /\ call = NoCall
    /\ \E args \in CommandLines, config_file \in ConfigFiles :
           cli = [phase |-> "start", args |-> args, file |-> config_file,
                  loaded |-> EmptyConfig, config |-> EmptyConfig,
                  status |-> 0, stderr |-> "", called |-> FALSE, written |-> FALSE]

\* Lines 555-568: the config of the file, the keys of a JSON column mapping
\* parsed; {} without -c.
LoadConfig ==
    /\ cli.phase = "start"
    /\ \E loaded \in { IF cli.file.kind = "json"
                         /\ "column_mapping" \in cli.file.content.keys
                       THEN [cli.file.content EXCEPT
                               !.column_mapping = parse_json_column_mapping(@).val]
                       ELSE cli.file.content } :
           cli' = [cli EXCEPT !.phase = "loaded", !.loaded = loaded, !.config = loaded]
    /\ UNCHANGED <<convertVars, fn, pair, call>>

\* Lines 571-608: the arguments are written over the config.  parser.error
\* ends the run with status 2 and its message on stderr, an exception that
\* nothing catches with status 1 and a traceback.
Overrides ==
    /\ cli.phase = "loaded"
    /\ \E r \in {WithLlaReference(
                   WithHeaderRows(
                     WithDefaults(
                       WithEntityId(WithMapping(cli.config, cli.args), cli.args),
                       cli.args),
                     cli.args),
                   cli.args)} :
           cli' = IF r.end = "none"
                  THEN [cli EXCEPT !.phase = "ready",
                                   !.config = WithAngleUnits(r.config, cli.args)]
                  ELSE IF r.end = "parser.error"
                  THEN [cli EXCEPT !.phase = "exit", !.config = r.config,
                                   !.status = 2, !.stderr = LLA_REFERENCE_MESSAGE]
                  ELSE [cli EXCEPT !.phase = "exit", !.config = r.config,
                                   !.status = 1, !.stderr = "Traceback: " \o r.end]
    /\ UNCHANGED <<convertVars, fn, pair, call>>

\* Lines 611-612: convert() is called; it writes the output file and
\* returns, or raises and writes nothing.
RunConvert ==
    /\ cli.phase = "ready"
    /\ \/ cli' = [cli EXCEPT !.phase = "exit", !.called = TRUE, !.written = TRUE]
       \/ cli' = [cli EXCEPT !.phase = "exit", !.called = TRUE,
                             !.status = 1, !.stderr = "Traceback: convert"]
    /\ UNCHANGED <<convertVars, fn, pair, call>>

CliNext == LoadConfig \/ Overrides \/ RunConvert

SpecCli == CliInit /\ [][CliNext]_vars

\* --lla-reference is given and is neither 'first' nor three numbers
\* separated by commas.
NumericTriple(text) ==
    /\ Len(text) = 5
    /\ text[2] = "," /\ text[4] = ","
    /\ \A k \in {1, 3, 5} : text[k] \in NumberTexts

InvalidReferenceArg ==
    /\ cli.args.lla_reference.given
    /\ cli.args.lla_reference.text # <<"first">>
    /\ ~NumericTriple(cli.args.lla_reference.text)

\* C22: a run whose --lla-reference value is neither 'first' nor a triple
\* of numbers ends with a non-zero status and the message "--lla-reference
\* must be 'first' or 'lat,lon,alt'" on stderr, without convert() being
\* called and without an output file.
C22_InvalidReferenceRejected ==
    (InvalidReferenceArg /\ cli.phase \in {"ready", "exit"}) =>
        /\ cli.phase = "exit"
        /\ cli.status # 0
        /\ cli.stderr = LLA_REFERENCE_MESSAGE
        /\ ~cli.called
        /\ ~cli.written

\* Key `key` of the built config: the value of the argument if the argument
\* counts as given, else what the file held, the absence of the key
\* included.
KeyIs(key, given, value) ==
    IF given THEN key \in cli.config.keys /\ cli.config[key] = value
    ELSE /\ key \in cli.config.keys <=> key \in cli.loaded.keys
         /\ cli.config[key] = cli.loaded[key]

\* The reference a valid --lla-reference value names.
ReferenceArgValue(text) ==
    IF NumericTriple(text)
    THEN PyDict([key \in {"lat", "lon", "alt"} |->
                   FloatOf(text[IF key = "lat" THEN 1 ELSE IF key = "lon" THEN 3 ELSE 5])])
    ELSE PyStr(TextOf(text))

\* The config convert() is called with, G(o) saying when the optional
\* argument o counts as given.
OverrideRule(G(_)) ==
    cli.phase = "ready" =>
        /\ KeyIs("column_mapping", G(cli.args.mapping),
                 parse_mapping_string(cli.args.mapping.text))
        /\ KeyIs("entity_id", G(cli.args.entity_id_column) \/ G(cli.args.entity_id_fixed),
                 IF G(cli.args.entity_id_column)
                 THEN [keys |-> {"column"}, fixed |-> "",
                       column |-> TextOf(cli.args.entity_id_column.text)]
                 ELSE [keys |-> {"fixed"}, column |-> "",
                       fixed |-> TextOf(cli.args.entity_id_fixed.text)])
        /\ KeyIs("defaults", G(cli.args.defaults),
                 DefaultPairs(Split(cli.args.defaults.text, ","), <<>>))
        /\ KeyIs("header_rows", cli.args.double_header, 2)
        /\ KeyIs("coordinate_system", G(cli.args.lla_reference), "lla")
        /\ KeyIs("lla_reference", G(cli.args.lla_reference),
                 ReferenceArgValue(cli.args.lla_reference.text))
        /\ KeyIs("angle_units", cli.args.angles_in_radians, "radians")

IsGiven(o) == o.given

\* C27, as the spec states it: each argument that is given replaces its own
\* key of the config loaded from the file and no other; --entity-id-column
\* wins over --entity-id-fixed when both are given; --lla-reference, when
\* given, also sets coordinate_system to "lla".
C27_ArgumentsOverrideConfig == OverrideRule(IsGiven)

\* C27, amended: the same for the arguments given with a non-empty value;
\* an argument given as the empty string leaves the config as it is.
C27_NonEmptyArgumentsOverrideConfig == OverrideRule(Truthy)

\* Over the full config of a JSON file: -m, both entity id arguments and
\* --lla-reference first.  The column wins, coordinate_system "ned" becomes
\* "lla", defaults and angle_units stay as the file has them.
C27_Witness ==
    /\ cli.phase = "ready"
    /\ cli.file.kind = "json"
    /\ Truthy(cli.args.mapping)
    /\ Truthy(cli.args.entity_id_column) /\ Truthy(cli.args.entity_id_fixed)
    /\ ~cli.args.defaults.given /\ ~cli.args.angles_in_radians
    /\ cli.args.lla_reference = Arg(<<"first">>)
    /\ cli.loaded.column_mapping = FILE_MAPPING
    /\ cli.config.column_mapping = <<<<PyKeyStr("time"), "timestamp">>>>
    /\ cli.config.entity_id = [keys |-> {"column"}, column |-> "track", fixed |-> ""]
    /\ cli.loaded.coordinate_system = "ned" /\ cli.config.coordinate_system = "lla"
    /\ cli.config.defaults = <<<<"pitch", Zero>>>>
    /\ cli.config.angle_units = "degrees"

====
